---- MODULE Spec2Model ----
(***************************************************************************)
(* SecureChat client: the connectivity supervisor (_ConnectivityManager),  *)
(* its offline send queue, and the realtime sync engine's channel          *)
(* lifecycle (_RealtimeManager), as state machines.                        *)
(*                                                                         *)
(* JavaScript runs one handler at a time; an async function runs until its *)
(* next await and is resumed later.  Every action below is one such run:   *)
(* an event handler or timer callback from its start to its first await,   *)
(* or the continuation of a suspended invocation from the await that       *)
(* resolved to the next one.  Suspended invocations are the bag `tasks`.   *)
(***************************************************************************)
EXTENDS Integers, Sequences, FiniteSets, Bags, TLC

\* ---------------------------------------------------------------- bounds
MaxTasks == 2
MaxOverlap == 1
MaxTimers == 2
MaxLoops == 1
MaxMsgs == 2
MaxSends == 2
MaxCount == 17
MaxConvs == 3
MaxOthers == 2
MaxPeers == 1
MaxRows == 3
MaxUnread == 2
MaxNow == 4
MaxFails == 6
MaxPass == 2
MaxOwn == 1
MaxText == 2
MaxWatchers == 2
MaxJitters == 3

\* ------------------------------------------------------ program constants
MAX_ATTEMPTS == 15
MESSAGE_PAGE_SIZE == 50
\* delays are counted in quarters of a millisecond: RECONNECT_INTERVAL_MS is
\* 5 seconds, _maxReconnectDelay 30 seconds, the jitter stays below 1 second
RECONNECT_INTERVAL_MS == 20000
MAX_RECONNECT_DELAY == 120000
JITTER_MS == 4000
\* EXPIRY_MS and the clock are counted in units of 100 seconds
EXPIRY_MS == 3
PASSKEY_LOCKOUT_ATTEMPTS == 5
PASSKEY_MIN_LENGTH == 4
\* PASSKEY_LOCKOUT_DURATION_MS is counted in units of 30 seconds
PASSKEY_LOCKOUT_DURATION_MS == 2
\* SESSION_TIMEOUT_MS is counted in units of 15 minutes
SESSION_TIMEOUT_MS == 2
\* the length of the AES-GCM authentication tag, in bytes
TAG_LENGTH == 16
\* generateGibberish reads at most this many bytes
GIBBERISH_BYTES == 40
\* code points: a letter, an unpaired high surrogate, the byte order mark,
\* the replacement character, a space
LETTER == 97
SURROGATE == 55357
BOM == 65279
REPLACEMENT == 65533
SPACE == 32

NULL == "null"

\* conversation ids
Conversations == {<<"c1", "c2", "c3", "c4">>[i] : i \in 1..MaxConvs}
NoTimer == 0
U == "u1"
\* the other users seen on presence channels and as senders
Others == {<<"u2", "u3", "u4">>[i] : i \in 1..MaxOthers}
Peers == {<<"u2", "u3", "u4">>[i] : i \in 1..MaxPeers}
\* the passphrases a user may type
Passphrases == {<<"p1", "p2", "p3">>[i] : i \in 1..MaxPass}
\* the callbacks handed to AppState.watch
Callbacks == {<<"f", "g", "h">>[i] : i \in 1..MaxWatchers}

VARIABLES
  cm,        \* _ConnectivityManager fields
  app,       \* AppState keys
  timers,    \* pending setTimeout handles of the backoff loop
  env,       \* navigator.onLine, document.visibilityState, Date.now()
  tasks,     \* suspended async invocations (a bag)
  sends,     \* rows inserted in `messages`, per idempotency key
  gone,      \* bookkeeping: keys queued, expired by a flush, wiped by reset; the
             \* rows whose INSERT event was delivered
  emitted,   \* events published on the bus by the last step
  rt,        \* _RealtimeManager fields
  channels,  \* SupabaseService._channels (keys)
  tracked,   \* conversations whose presence channel tracks the local user as typing
  sessionTimers, \* pending setTimeout handles of the inactivity timer, each
             \* with the time it was set at
  watchers,  \* AppState._watchers (each Set in insertion order) and the
             \* unsubscribe handles returned by watch
  budget,    \* how many invocations may be suspended and how many backoff timers
             \* may be pending at once, the conversations opened and the other
             \* users present (fixed by Init)
  last       \* the handler run (or resumed) by the last step, and what it was resumed with

vars ==
  <<cm, app, timers, env, tasks, sends, gone, emitted, rt, channels, tracked,
    watchers, sessionTimers, budget, last>>

\* The mutable world a handler works on; handlers are functions World -> World.
World ==
  [cm |-> cm, app |-> app, timers |-> timers,
   gone |-> gone, emitted |-> <<>>, rt |-> rt, channels |-> channels,
   tracked |-> tracked, tasks |-> tasks, watchers |-> watchers,
   sessionTimers |-> sessionTimers]

Ran(handler, with) == [handler |-> handler, with |-> with]

Commit(handler, with, w) ==
  /\ last' = Ran(handler, with)
  /\ cm' = w.cm
  /\ app' = w.app
  /\ timers' = w.timers
  /\ gone' = w.gone
  /\ emitted' = w.emitted
  /\ rt' = w.rt
  /\ channels' = w.channels
  /\ tracked' = w.tracked
  /\ watchers' = w.watchers
  /\ sessionTimers' = w.sessionTimers
  /\ tasks' = w.tasks
  /\ BagCardinality(w.tasks) <= budget.tasks
  /\ budget' = budget
  /\ Cardinality(w.timers) <= budget.timers

Ev(type, a, b) == [type |-> type, a |-> a, b |-> b, n |-> <<>>]
EvN(type, n) == [type |-> type, a |-> NULL, b |-> NULL, n |-> n]

\* eventBus.emit: handlers run synchronously inside emit; the handlers that
\* change modelled state are applied by the emitting operator itself.
emit(w, e) == [w EXCEPT !.emitted = Append(@, e)]

StateMap(s) ==
  CASE s = "online" -> "connected"
    [] s = "offline" -> "disconnected"
    [] OTHER -> "reconnecting"

InitialAppState ==
  [connectionStatus |-> "connected", messageQueue |-> <<>>, user |-> NULL,
   activeConversationId |-> NULL, onlineUsers |-> {}, typingUsers |-> <<>>,
   messages |-> <<>>, messagePagination |-> <<>>, unreadCounts |-> <<>>,
   totalUnread |-> 0,
   passkeys |-> <<>>, derivedKeys |-> <<>>, passkeyAttempts |-> <<>>,
   profile |-> NULL, theme |-> "dark"]

\* ---------------------------------------------------- AppState (watchers)
\* the keys set and watched below, with the values given to them
WatchedKeys == {"unreadCounts", "theme"}
ValuesOf(key) ==
  IF key = "unreadCounts" THEN {<<>>, [c \in {"c1"} |-> 1]} ELSE {"dark", "light"}
\* the bus event that gets listeners below
BusEvents == {"state:change"}

Range(seq) == {seq[i] : i \in 1..Len(seq)}

\* a watch that keeps its callbacks in a list
watch_list(w, key, callback) ==
  [w EXCEPT !.watchers.of[key] = Append(@, callback),
            !.watchers.handles = @ \cup {<<key, callback>>},
            !.gone.watching = @ \cup {<<key, callback>>}]

\* AppState.watch: Set.add keeps one entry per callback; the handle returned
\* deletes the callback from the key's Set
watch(w, key, callback) ==
  [w EXCEPT !.watchers.of[key] = IF callback \in Range(@) THEN @ ELSE Append(@, callback),
            !.watchers.handles = @ \cup {<<key, callback>>},
            !.gone.watching = @ \cup {<<key, callback>>}]

\* the function returned by watch(key, callback)
unwatch(w, key, callback) ==
  [w EXCEPT !.watchers.of[key] = SelectSeq(@, LAMBDA cb : cb # callback),
            !.gone.watching = @ \ {<<key, callback>>}]

\* a _notify without the try around the callback
RECURSIVE _notify_noCatch(_, _, _, _, _, _)
_notify_noCatch(w, key, value, old, throws, i) ==
  IF i > Len(w.watchers.of[key]) THEN w
  ELSE LET cb == w.watchers.of[key][i]
           called == emit(w, [type |-> "watcher", a |-> key, b |-> cb,
                              n |-> <<value, old, cb \in throws>>])
       IN IF cb \in throws THEN emit(called, Ev("throw", key, cb))
          ELSE _notify_noCatch(called, key, value, old, throws, i + 1)

\* AppState._notify: every callback of the key in turn, a throw is caught
RECURSIVE _notify(_, _, _, _, _, _)
_notify(w, key, value, old, throws, i) ==
  IF i > Len(w.watchers.of[key]) THEN w
  ELSE LET cb == w.watchers.of[key][i]
       IN _notify(emit(w, [type |-> "watcher", a |-> key, b |-> cb,
                           n |-> <<value, old, cb \in throws>>]),
                  key, value, old, throws, i + 1)

\* an exception on its way up the stack: a caller without a try stops at it
Thrown(w) == Len(w.emitted) > 0 /\ w.emitted[Len(w.emitted)].type = "throw"

\* EventBus.on: Set.add keeps one entry per callback
on(w, event, callback) ==
  [w EXCEPT !.watchers.on[event] = IF callback \in Range(@) THEN @ ELSE Append(@, callback)]

\* the loop of EventBus.emit: every handler of the event in turn, a throw is
\* caught
RECURSIVE handlersFrom(_, _, _, _, _)
handlersFrom(w, event, data, throws, i) ==
  IF i > Len(w.watchers.on[event]) THEN w
  ELSE LET cb == w.watchers.on[event][i]
       IN handlersFrom(emit(w, [type |-> "handler", a |-> event, b |-> cb,
                                n |-> <<data, cb \in throws>>]),
                       event, data, throws, i + 1)

\* EventBus.emit of event e (the event itself is recorded first)
eventBusEmit(w, e, throws) ==
  IF e.type \in DOMAIN w.watchers.on
  THEN handlersFrom(emit(w, e), e.type, <<e.a, e.n>>, throws, 1)
  ELSE emit(w, e)

\* AppState.set
set(w, key, value, throws) ==
  LET old == w.app[key]
      w1 == [w EXCEPT !.app[key] = value]
      w2 == _notify(w1, key, value, old, throws, 1)
  IN IF Thrown(w2) THEN w2
     ELSE eventBusEmit(
            eventBusEmit(w2, [type |-> "state:change", a |-> key, b |-> NULL,
                              n |-> <<value, old>>], throws),
            [type |-> "state:" \o key, a |-> NULL, b |-> NULL, n |-> <<value, old>>],
            throws)

\* AppState.batch: updates lists the entries of the object in their order
RECURSIVE batchFrom(_, _, _, _, _)
batchFrom(w, updates, throws, i, changes) ==
  IF i > Len(updates)
  THEN eventBusEmit(w, [type |-> "state:batch", a |-> NULL, b |-> NULL, n |-> changes],
                    throws)
  ELSE LET key == updates[i][1]
           value == updates[i][2]
           old == w.app[key]
           w1 == _notify([w EXCEPT !.app[key] = value], key, value, old, throws, 1)
       IN IF Thrown(w1) THEN w1
          ELSE batchFrom(w1, updates, throws, i + 1, Append(changes, <<key, value, old>>))

batch(w, updates, throws) == batchFrom(w, updates, throws, 1, <<>>)

\* AppState.merge on an object-valued key
merge(w, key, subKey, value, throws) ==
  LET current == w.app[key]
      old == IF subKey \in DOMAIN current THEN current[subKey] ELSE "undefined"
      w1 == [w EXCEPT !.app[key] =
               [x \in DOMAIN current \cup {subKey} |-> IF x = subKey THEN value ELSE current[x]]]
      w2 == _notify(w1, key, w1.app[key], "undefined", throws, 1)
  IN IF Thrown(w2) THEN w2
     ELSE eventBusEmit(w2, [type |-> "state:" \o key \o ":" \o subKey, a |-> NULL,
                            b |-> NULL, n |-> <<value, old>>], throws)

\* a JavaScript object or Map as a function on the keys it holds
Has(obj, k) == k \in DOMAIN obj
Put(obj, k, v) == [x \in DOMAIN obj \cup {k} |-> IF x = k THEN v ELSE obj[x]]
Del(obj, k) == [x \in DOMAIN obj \ {k} |-> obj[x]]

\* ------------------------------------------- CryptoEngine (passkey lockout)
\* isLockedOut that treats the instant lockedUntil as already elapsed
isLockedOut_early(w, conversationId, now) ==
  LET all == w.app.passkeyAttempts
  IN IF ~Has(all, conversationId) THEN [w |-> w, ret |-> FALSE]
     ELSE IF all[conversationId].count < PASSKEY_LOCKOUT_ATTEMPTS
       THEN [w |-> w, ret |-> FALSE]
     ELSE IF now >= all[conversationId].lockedUntil
       THEN [w |-> [w EXCEPT !.app.passkeyAttempts = Del(all, conversationId)],
             ret |-> FALSE]
     ELSE [w |-> w, ret |-> TRUE]

\* isLockedOut: the world after the call and the value returned
isLockedOut(w, conversationId, now) ==
  LET all == w.app.passkeyAttempts
  IN IF ~Has(all, conversationId) THEN [w |-> w, ret |-> FALSE]
     ELSE IF all[conversationId].count < PASSKEY_LOCKOUT_ATTEMPTS
       THEN [w |-> w, ret |-> FALSE]
     ELSE IF now > all[conversationId].lockedUntil
       THEN [w |-> [w EXCEPT !.app.passkeyAttempts = Del(all, conversationId)],
             ret |-> FALSE]
     ELSE [w |-> w, ret |-> TRUE]

\* recordFailedAttempt: the world after the call and the record returned
recordFailedAttempt(w, conversationId, now) ==
  LET all == w.app.passkeyAttempts
      cur == IF Has(all, conversationId) THEN all[conversationId]
             ELSE [count |-> 0, lockedUntil |-> NULL]
      count == cur.count + 1
      new == [count |-> count,
              lockedUntil |-> IF count >= PASSKEY_LOCKOUT_ATTEMPTS
                              THEN now + PASSKEY_LOCKOUT_DURATION_MS
                              ELSE cur.lockedUntil]
  IN [w |-> [w EXCEPT !.app.passkeyAttempts = Put(all, conversationId, new)],
      ret |-> new]

resetAttempts(w, conversationId) ==
  [w EXCEPT !.app.passkeyAttempts = Del(@, conversationId)]

\* ------------------------------------------------------------ task records
\* The locals of a flushQueue, with two fields of bookkeeping: `seen` lists the
\* entries the loop has examined (when, and what became of the send), `solo`
\* tells that no other queue operation ran since the flush started.
NoFlush ==
  [q |-> <<>>, aliased |-> FALSE, idx |-> 0, remaining |-> <<>>, sent |-> 0, failed |-> 0,
   seen |-> <<>>, solo |-> TRUE]

Seen(msg, now, result) ==
  [key |-> msg.key, queuedAt |-> msg.queuedAt,
   old |-> now - msg.queuedAt > EXPIRY_MS, result |-> result]

Task(kind, pc, vis, fl) ==
  [kind |-> kind, pc |-> pc, vis |-> vis, fl |-> fl, conv |-> NULL, prev |-> NULL,
   pass |-> NULL, key |-> 0]

\* a suspended enterConversation(conv) / leaveConversation(prev)
ConvTask(kind, pc, conv, prev) ==
  [kind |-> kind, pc |-> pc, vis |-> FALSE, fl |-> NoFlush, conv |-> conv, prev |-> prev,
   pass |-> NULL, key |-> 0]

\* a getKey(conv, passkey, salt) suspended in deriveKey
KeyTask(conv, passkey) ==
  [ConvTask("getKey", "deriveKey", conv, NULL) EXCEPT !.pass = passkey]

spawn(w, t) == [w EXCEPT !.tasks = @ (+) SetToBag({t})]

\* ------------------------------------------------ CryptoEngine (key store)
\* the salt of a conversation (fixed once the conversation exists)
Salt(conversationId) == <<"salt", conversationId>>

\* PBKDF2: the key is determined by the passphrase and the salt
deriveKey(passkey, salt) == <<passkey, salt>>

setPasskey(w, conversationId, passkey) ==
  [w EXCEPT !.app.passkeys = Put(@, conversationId, passkey),
            !.app.derivedKeys = Del(@, conversationId)]

KeyReturn(conversationId, passkey, salt, key) ==
  [type |-> "return:getKey", a |-> conversationId, b |-> passkey, n |-> <<salt, key>>]

\* getKey up to its await of deriveKey
getKey(w, conversationId, passkey, salt) ==
  IF /\ Has(w.app.derivedKeys, conversationId)
     /\ Has(w.app.passkeys, conversationId)
     /\ w.app.passkeys[conversationId] = passkey
  THEN emit(w, KeyReturn(conversationId, passkey, salt,
                         w.app.derivedKeys[conversationId]))
  ELSE spawn(w, KeyTask(conversationId, passkey))

\* getKey from the point where deriveKey has settled
getKeyResume(w, conversationId, passkey, salt, ok) ==
  IF ~ok THEN w
  ELSE LET key == deriveKey(passkey, salt)
       IN emit([w EXCEPT !.app.derivedKeys = Put(@, conversationId, key)],
               KeyReturn(conversationId, passkey, salt, key))

clearKeys(w) ==
  [w EXCEPT !.app.passkeys = <<>>, !.app.derivedKeys = <<>>,
            !.app.passkeyAttempts = <<>>, !.gone.fails = <<>>]

\* ------------------------------------------------- SupabaseService channels
Key(kind, id) == <<kind, id>>

\* removing a presence channel ends the local user's presence on it
Untrack(w, key) ==
  IF key[1] = "presence" THEN [w EXCEPT !.tracked = @ \ {key[2]}] ELSE w

unsubscribe(w, key) ==
  emit([Untrack(w, key) EXCEPT !.channels = @ \ {key}],
       Ev("call:unsubscribe", key[1], key[2]))

\* subscribeTo...: the old channel of the key is removed; a new presence channel
\* tracks typing: false once subscribed
subscribe(w, key) ==
  emit([Untrack(w, key) EXCEPT !.channels = @ \cup {key}],
       Ev("call:subscribe", key[1], key[2]))

unsubscribeAll(w) == [w EXCEPT !.channels = {}, !.tracked = {}]

\* SupabaseService.broadcastTyping: channel.track on the presence channel, if any
broadcastTyping(w, conversationId, isTyping) ==
  IF Key("presence", conversationId) \notin w.channels THEN w
  ELSE emit([w EXCEPT !.tracked = IF isTyping THEN @ \cup {conversationId}
                                  ELSE @ \ {conversationId}],
            Ev("call:broadcastTyping", conversationId,
               IF isTyping THEN "true" ELSE "false"))

\* ------------------------------------------------------------ unread counts
RECURSIVE SumOver(_, _)
SumOver(f, ks) ==
  IF ks = {} THEN 0
  ELSE LET k == CHOOSE x \in ks : TRUE IN f[k] + SumOver(f, ks \ {k})

\* Object.values(counts).reduce((a, b) => a + b, 0)
Total(counts) == SumOver(counts, DOMAIN counts)

Count(counts, convId) == IF Has(counts, convId) THEN counts[convId] ELSE 0

\* an _updateUnreadCount that leaves the total as it was
_updateUnreadCount_keepTotal(w, conversationId, count) ==
  [w EXCEPT !.app.unreadCounts = Put(@, conversationId, count)]

_updateUnreadCount(w, conversationId, count) ==
  LET counts == Put(w.app.unreadCounts, conversationId, count)
  IN [w EXCEPT !.app.unreadCounts = counts, !.app.totalUnread = Total(counts)]

\* _handleGlobalMessageInsert without the check of the tab's visibility
_handleGlobalMessageInsert_noVisibility(w, msg, visible) ==
  LET convId == msg.conv
      counts == Put(w.app.unreadCounts, convId, Count(w.app.unreadCounts, convId) + 1)
      w1 == IF convId # w.rt.activeConversationId
            THEN emit([w EXCEPT !.app.unreadCounts = counts,
                                !.app.totalUnread = Total(counts)],
                      EvN("notification:message", <<msg.id, convId>>))
            ELSE w
  IN IF msg.sender = w.rt.userId THEN w
     ELSE emit(w1, Ev("conversations:updated", convId, NULL))

_handleGlobalMessageInsert(w, msg, visible) ==
  LET convId == msg.conv
      counts == Put(w.app.unreadCounts, convId, Count(w.app.unreadCounts, convId) + 1)
      w1 == IF convId # w.rt.activeConversationId \/ ~visible
            THEN emit([w EXCEPT !.app.unreadCounts = counts,
                                !.app.totalUnread = Total(counts)],
                      EvN("notification:message", <<msg.id, convId>>))
            ELSE w
  IN IF msg.sender = w.rt.userId THEN w
     ELSE emit(w1, Ev("conversations:updated", convId, NULL))

\* _handleVisibilityChange (tab became visible) after _handleOnline, up to its
\* await of markMessagesRead
visibleTail(w) ==
  IF w.app.activeConversationId # NULL /\ w.app.user # NULL
  THEN spawn(w, ConvTask("visible", "markMessagesRead", w.app.activeConversationId, NULL))
  ELSE w

\* _handleVisibilityChange after markMessagesRead settled
visibleReadResume(w, activeConv, ok) ==
  IF ok /\ Count(w.app.unreadCounts, activeConv) > 0
  THEN _updateUnreadCount(w, activeConv, 0)
  ELSE w

\* ------------------------------------------------ _RealtimeManager (resubscribe)
\* a resubscribeActive that rebuilds the message channel only
resubscribeActive_messagesOnly(w) ==
  LET convId == w.rt.activeConversationId
      w1 == unsubscribe(unsubscribe(w, Key("messages", convId)), Key("presence", convId))
  IN IF convId = NULL THEN w ELSE subscribe(w1, Key("messages", convId))

resubscribeActive(w) ==
  LET convId == w.rt.activeConversationId
      w1 == unsubscribe(unsubscribe(w, Key("messages", convId)), Key("presence", convId))
      w2 == subscribe(w1, Key("messages", convId))
  IN IF convId = NULL THEN w
     ELSE IF w.rt.userId # NULL THEN subscribe(w2, Key("presence", convId)) ELSE w2

resubscribeGlobal(w) ==
  LET uid == w.rt.userId
      w1 == unsubscribe(unsubscribe(w, Key("all-messages", uid)), Key("contacts", uid))
  IN IF uid = NULL THEN w
     ELSE subscribe(subscribe(w1, Key("all-messages", uid)), Key("contacts", uid))

\* RealtimeManager.init(userId)
realtimeInit(w, userId) ==
  IF w.rt.initialized THEN w
  ELSE subscribe(subscribe([w EXCEPT !.rt.userId = userId, !.rt.initialized = TRUE],
                           Key("all-messages", userId)),
                 Key("contacts", userId))

\* App.loadUserData from the point where the last getUnreadCount has settled
\* to its await of getContacts: counts holds what the server returned
loadUnreadCounts(w, counts, userId) ==
  realtimeInit([w EXCEPT !.app.unreadCounts = counts, !.app.totalUnread = Total(counts)],
               userId)

\* ------------------------------------------------------ _ConnectivityManager
_setStatus_noGuard(w, status) ==
  emit([w EXCEPT !.cm.status = status, !.app.connectionStatus = StateMap(status)],
       Ev("connectivity:change", status, w.cm.status))

_setStatus(w, status) ==
  IF w.cm.status = status THEN w
  ELSE emit([w EXCEPT !.cm.status = status, !.app.connectionStatus = StateMap(status)],
            Ev("connectivity:change", status, w.cm.status))

\* setTimeout: a handle that no pending timer has.  Handles are compared only
\* with each other, so the smallest free one stands for a fresh one.
NewTimer(pending) ==
  CHOOSE t \in 1..(MaxTimers + 2) :
    t \notin pending /\ \A u \in 1..(t - 1) : u \in pending

scheduleAttempt(w) ==
  LET t == NewTimer(w.timers)
  IN [w EXCEPT !.timers = @ \cup {t}, !.cm.reconnectInterval = t]

_stopReconnecting(w) ==
  IF w.cm.reconnectInterval # NoTimer
  THEN [w EXCEPT !.timers = @ \ {w.cm.reconnectInterval}, !.cm.reconnectInterval = NoTimer]
  ELSE w

_startReconnecting(w) ==
  IF w.cm.reconnectInterval # NoTimer THEN w
  ELSE scheduleAttempt(
         [_setStatus(w, "reconnecting") EXCEPT !.app.connectionStatus = "reconnecting"])

\* The session:expired listener: SupabaseService.signOut() is started (it
\* suspends in auth.signOut) and nothing else.
\* SupabaseService.signOut() up to its await of auth.signOut, called by `caller`
signOut(w, caller) ==
  spawn(clearKeys(w), Task(caller, "authSignOut", FALSE, NoFlush))

sessionExpired(w) ==
  IF w.cm.initialized
  THEN signOut(emit(w, Ev("session:expired", NULL, NULL)), "signOut")
  ELSE emit(w, Ev("session:expired", NULL, NULL))

\* the session timeout fires: session:timeout -> SupabaseService.signOut()
sessionTimeout(w) ==
  IF w.cm.initialized
  THEN signOut(emit(w, Ev("session:timeout", NULL, NULL)), "signOut")
  ELSE emit(w, Ev("session:timeout", NULL, NULL))

\* The realtime:reconnect listener.
realtimeReconnect(w) ==
  IF w.cm.initialized
  THEN resubscribeActive(resubscribeGlobal(emit(w, Ev("realtime:reconnect", w.app.user, NULL))))
  ELSE emit(w, Ev("realtime:reconnect", w.app.user, NULL))

\* _reconnect from the point where getSession has settled with `outcome`:
\* "session", "null" (no live session) or "error" (getSession threw).
_reconnect(w, outcome) ==
  IF outcome = "error" THEN [w |-> w, ok |-> FALSE]
  ELSE IF outcome = "null" THEN [w |-> sessionExpired(w), ok |-> FALSE]
  ELSE LET w1 == IF w.app.user # NULL THEN realtimeReconnect(w) ELSE w
           w2 == [w1 EXCEPT !.app.connectionStatus = "connected",
                            !.cm.reconnectAttempts = 0]
       IN [w |-> _stopReconnecting(w2), ok |-> TRUE]

\* ---------------------------------------------------------- session timeout
\* clearTimeout(handle): a handle that is not pending is ignored
clearTimeout(pending, handle) == {t \in pending : t.id # handle}

\* setTimeout: a handle that no pending timer has
NewSessionTimer(pending) == CHOOSE id \in 1..(Cardinality(pending) + 1) :
                       \A t \in pending : t.id # id

\* a _resetSessionTimeout that leaves the pending timer alone
_resetSessionTimeout_noClear(w, now) ==
  LET id == NewSessionTimer(w.sessionTimers)
  IN [w EXCEPT !.cm.sessionTimeout = id,
               !.sessionTimers = @ \cup {[id |-> id, at |-> now]}]

_clearSessionTimeout(w) ==
  IF w.cm.sessionTimeout # NoTimer
  THEN [w EXCEPT !.sessionTimers = clearTimeout(@, w.cm.sessionTimeout),
                 !.cm.sessionTimeout = NoTimer]
  ELSE w

_resetSessionTimeout(w, now) ==
  LET w1 == _clearSessionTimeout(w)
      id == NewSessionTimer(w1.sessionTimers)
  IN [w1 EXCEPT !.cm.sessionTimeout = id,
                !.sessionTimers = @ \cup {[id |-> id, at |-> now]}]

\* the callback Utils.throttle(fn, 30 s) wraps: with the clock in units of 15
\* minutes, two calls less than two units apart may or may not be 30 s apart
Throttled(now, lastCall) == {TRUE} \cup (IF now - lastCall >= 2 THEN {} ELSE {FALSE})

\* _handlers.activity
activity(w, now, passes) ==
  IF passes THEN _resetSessionTimeout([w EXCEPT !.cm.activityLast = now], now) ELSE w

\* ------------------------------------------------------------ offline queue
Entry(k, t) == [key |-> k, queuedAt |-> t]

\* an expiry test that lets an entry live one unit longer
Expired_late(msg, now) == now - msg.queuedAt > EXPIRY_MS + 1

Expired(msg, now) == now - msg.queuedAt > EXPIRY_MS

\* The first index >= i of q whose entry is not expired, Len(q) + 1 if none.
RECURSIVE SkipExpired(_, _, _)
SkipExpired(q, i, now) ==
  IF i > Len(q) THEN i
  ELSE IF Expired(q[i], now) THEN SkipExpired(q, i + 1, now)
  ELSE i

\* AppState.set('messageQueue', a fresh array): no suspended flush iterates
\* the stored array any more.
setMessageQueue(w, queue) ==
  [w EXCEPT !.app.messageQueue = queue,
            !.tasks = BagOfAll(LAMBDA t : [t EXCEPT !.fl.aliased = FALSE,
                                                    !.fl.solo = FALSE], @)]

\* queueMessage: push onto the stored array (an array a suspended flush may be
\* iterating), then store a copy.
queueMessage(w, k, now) ==
  LET e == Entry(k, now)
      pushed == BagOfAll(LAMBDA t : IF t.fl.aliased
                                    THEN [t EXCEPT !.fl.q = Append(@, e), !.fl.aliased = FALSE,
                                                   !.fl.solo = FALSE]
                                    ELSE [t EXCEPT !.fl.solo = FALSE],
                         w.tasks)
      w1 == [w EXCEPT !.tasks = pushed,
                      !.app.messageQueue = Append(@, e),
                      !.gone.queued = @ \cup {k}]
  IN emit(w1, EvN("queue:updated", <<Len(w1.app.messageQueue)>>))

\* The loop of flushQueue from entry fl.idx on, up to the next await or the end.
\* Result: the world, the flush's locals, and whether flushQueue has returned.
flushLoop(w, fl, now) ==
  LET j == SkipExpired(fl.q, fl.idx, now)
      n == j - fl.idx
      examined == [i \in 1..n |-> Seen(fl.q[fl.idx + i - 1], now, "none")]
                    \o (IF j <= Len(fl.q) THEN <<Seen(fl.q[j], now, "pending")>> ELSE <<>>)
      fl1 == [fl EXCEPT !.idx = j, !.failed = @ + n, !.seen = @ \o examined]
      w1 == [w EXCEPT
               !.emitted = @ \o [i \in 1..n |->
                                   EvN("message:queue:expired", <<fl.q[fl.idx + i - 1].key>>)],
               !.gone.expired = @ \cup {fl.q[i].key : i \in fl.idx..(j - 1)}]
  IN IF j <= Len(fl.q)
     THEN [w |-> w1, fl |-> fl1, done |-> FALSE]
     ELSE [w |-> emit(emit(setMessageQueue(w1, fl1.remaining),
                           EvN("queue:flushed",
                               <<fl1.sent, fl1.failed, Len(fl1.remaining)>>)),
                      [type |-> "flush:done", a |-> NULL,
                       b |-> IF fl1.solo THEN "solo" ELSE "overlapped",
                       n |-> <<fl1.seen, fl1.q>>]),
           fl |-> fl1, done |-> TRUE]

flushQueue(w, now) ==
  LET queue == w.app.messageQueue
  IN IF Len(queue) = 0
     THEN [w |-> w, fl |-> NoFlush, done |-> TRUE]
     ELSE flushLoop([w EXCEPT !.tasks = BagOfAll(LAMBDA t : [t EXCEPT !.fl.solo = FALSE], @)],
                    [q |-> queue, aliased |-> TRUE, idx |-> 1, remaining |-> <<>>,
                     sent |-> 0, failed |-> 0, seen |-> <<>>,
                     solo |-> \A t \in BagToSet(w.tasks) : t.pc # "send"],
                    now)

\* a flushQueue that puts a failed entry in front of the entries it keeps
flushResume_lifo(w, fl, sendOk, now) ==
  LET fl1 == IF sendOk
             THEN [fl EXCEPT !.sent = @ + 1, !.idx = @ + 1,
                             !.seen[Len(fl.seen)].result = "sent"]
             ELSE [fl EXCEPT !.remaining = <<fl.q[fl.idx]>> \o @,
                             !.failed = @ + 1, !.idx = @ + 1,
                             !.seen[Len(fl.seen)].result = "error"]
  IN flushLoop(w, fl1, now)

\* The loop of flushQueue resumed after the send of entry fl.idx settled.
flushResume(w, fl, sendOk, now) ==
  LET fl1 == IF sendOk
             THEN [fl EXCEPT !.sent = @ + 1, !.idx = @ + 1,
                             !.seen[Len(fl.seen)].result = "sent"]
             ELSE [fl EXCEPT !.remaining = Append(@, fl.q[fl.idx]),
                             !.failed = @ + 1, !.idx = @ + 1,
                             !.seen[Len(fl.seen)].result = "error"]
  IN flushLoop(w, fl1, now)

\* _handleOnline after flushQueue returned
handleOnlineTail(w) ==
  LET w1 == IF w.app.activeConversationId # NULL
            THEN emit(w, Ev("conversation:reconnect", w.app.activeConversationId, NULL))
            ELSE w
  IN emit(emit(w1, Ev("conversations:refresh", NULL, NULL)),
          Ev("contacts:refresh", NULL, NULL))

\* the caller of _handleOnline goes on when it returns: the visibility handler
\* with its markMessagesRead, the online listener with nothing
handleOnlineReturn(w, vis) == IF vis THEN visibleTail(w) ELSE w

\* _handleOnline from the point where _reconnect's getSession has settled.
handleOnlineResume(w, vis, outcome, now) ==
  LET r == _reconnect(w, outcome)
      w1 == [_setStatus(r.w, "online") EXCEPT !.cm.reconnectAttempts = 0]
      f == flushQueue(w1, now)
  IN IF ~r.ok THEN handleOnlineReturn(_startReconnecting(r.w), vis)
     ELSE IF f.done THEN handleOnlineReturn(handleOnlineTail(f.w), vis)
     ELSE spawn(f.w, Task("online", "send", vis, f.fl))

\* an offline handler that starts the backoff loop as a failed heartbeat does
_handleOffline_retry(w) == _startReconnecting(_setStatus(w, "offline"))

_handleOffline(w) == _setStatus(w, "offline")

\* _handleOnline from its start to the await of getSession in _reconnect.
_handleOnline(w, vis) ==
  spawn(_setStatus(w, "reconnecting"), Task("online", "getSession", vis, NoFlush))

forceReconnectResume(w, outcome) ==
  LET r == _reconnect(w, outcome)
  IN IF r.ok THEN _setStatus(r.w, "online") ELSE _startReconnecting(r.w)

\* Math.random() * 1000: from 0 to just below a second
Jitters == {(k * (JITTER_MS - 1)) \div (MaxJitters - 1) : k \in 0..(MaxJitters - 1)}

\* x * Math.pow(1.5, k), rounded down to a quarter of a millisecond
RECURSIVE TimesPow(_, _)
TimesPow(x, k) ==
  IF k = 0 THEN x
  ELSE IF k > 0 THEN TimesPow((x * 3) \div 2, k - 1)
  ELSE TimesPow((x * 2) \div 3, k + 1)

Min(a, b) == IF a < b THEN a ELSE b

\* the delay before the next attempt, after a failure that left the counter
\* at `attempts`
backoffDelay(attempts, jitter) ==
  Min(TimesPow(RECONNECT_INTERVAL_MS, attempts - 1) + jitter, MAX_RECONNECT_DELAY)

\* attemptReconnect from the point where _reconnect's getSession has settled.
attemptReconnectResume(w, outcome, jitter) ==
  LET r == _reconnect(w, outcome)
      attempts == r.w.cm.reconnectAttempts
  IN IF r.ok
     THEN [_setStatus(r.w, "online") EXCEPT !.cm.reconnectInterval = NoTimer]
     ELSE IF attempts >= MAX_ATTEMPTS
          THEN _setStatus(_stopReconnecting(r.w), "offline")
          ELSE scheduleAttempt(
                 emit(r.w, EvN("setTimeout", <<attempts, backoffDelay(attempts, jitter)>>)))

\* attemptReconnect (the timer callback) up to its first await.
attemptReconnect(w, onLine) ==
  IF ~onLine THEN scheduleAttempt(w)
  ELSE spawn([w EXCEPT !.cm.reconnectAttempts = @ + 1],
             Task("attempt", "getSession", FALSE, NoFlush))

_stopHeartbeat(w) == [w EXCEPT !.cm.heartbeatInterval = FALSE]

heartbeatRecover(w) ==
  IF w.cm.status # "online"
  THEN [_setStatus(w, "online") EXCEPT !.app.connectionStatus = "connected"]
  ELSE w

\* The heartbeat callback from the point where getSession has settled.
heartbeatResume(w, outcome, onLine) ==
  IF outcome = "null" THEN _stopHeartbeat(sessionExpired(w))
  ELSE IF outcome = "error"
       THEN IF onLine /\ w.cm.status = "online"
            THEN _startReconnecting(
                   [_setStatus(w, "reconnecting") EXCEPT !.app.connectionStatus = "reconnecting"])
            ELSE w
  ELSE IF w.app.user # NULL
       THEN spawn(w, Task("heartbeat", "setUserStatus", FALSE, NoFlush))
       ELSE heartbeatRecover(w)

\* --------------------------------------------------------------- teardown
\* RealtimeManager.cleanup()
_clearAllTypingTimers(w) ==
  [w EXCEPT !.rt.typingExpireTimers = <<>>, !.rt.typingBroadcastTimer = NULL,
            !.rt.isTypingBroadcast = FALSE]

realtimeCleanup(w) ==
  [unsubscribeAll(_clearAllTypingTimers(w)) EXCEPT
     !.rt.activeConversationId = NULL, !.rt.initialized = FALSE, !.rt.userId = NULL]

\* ConnectivityManager.cleanup()
connectivityCleanup(w) ==
  [_clearSessionTimeout(_stopHeartbeat(_stopReconnecting(w))) EXCEPT
     !.cm.initialized = FALSE]

\* AppState.reset()
reset(w) ==
  LET wiped == {w.app.messageQueue[i].key : i \in 1..Len(w.app.messageQueue)}
      w1 == setMessageQueue(
              [w EXCEPT !.app = [InitialAppState EXCEPT !.theme = w.app.theme]], <<>>)
  IN emit([w1 EXCEPT !.gone.wiped = @ \cup wiped, !.gone.fails = <<>>],
          Ev("state:reset", NULL, NULL))

\* App.cleanup()
appCleanup(w) == clearKeys(connectivityCleanup(realtimeCleanup(w)))

\* App._handleAuthChange(event): SIGNED_OUT runs App.cleanup and nothing else
\* that changes the state; the other events do not touch the markers
_handleAuthChange(w, event) ==
  IF event = "SIGNED_OUT" THEN appCleanup(w) ELSE w

\* SupabaseService.signOut() from the point where auth.signOut has settled.
\* On success the client library notifies the auth listeners (SIGNED_OUT ->
\* App.cleanup) before signOut goes on to unsubscribeAll and AppState.reset.
signOutResume(w, ok) ==
  IF ~ok THEN w
  ELSE reset(unsubscribeAll(appCleanup(w)))

\* App.logout up to the await of signOut
logout(w) == signOut(appCleanup(w), "logout")

\* App.logout from the point where signOut has settled
logoutResume(w, ok) ==
  IF ok THEN signOutResume(w, TRUE) ELSE reset(w)

\* _handleBeforeUnload: the keepalive fetch may throw, and then the beacon
\* fallback may throw as well, which ends the handler in its outer catch
_handleBeforeUnload(w, fetchThrows, beaconThrows) ==
  IF w.app.user # NULL /\ fetchThrows /\ beaconThrows THEN w
  ELSE clearKeys(w)

\* ------------------------------------- _RealtimeManager (conversation, typing)
\* stopTyping up to its await of the presence broadcast
stopTyping(w, conversationId) ==
  broadcastTyping([emit(w, Ev("call:stopTyping", conversationId, NULL)) EXCEPT
                     !.rt.typingBroadcastTimer = NULL, !.rt.isTypingBroadcast = FALSE],
                  conversationId, FALSE)

\* SupabaseService.broadcastTyping suspends in channel.track only if the
\* conversation's presence channel exists.
BroadcastSuspends(w, conversationId) == Key("presence", conversationId) \in w.channels

startTyping(w, conversationId) ==
  IF conversationId = NULL \/ conversationId # w.rt.activeConversationId THEN w
  ELSE LET w1 == IF ~w.rt.isTypingBroadcast
                 THEN broadcastTyping([w EXCEPT !.rt.isTypingBroadcast = TRUE],
                                      conversationId, TRUE)
                 ELSE w
       IN [w1 EXCEPT !.rt.typingBroadcastTimer = conversationId]

\* leaveConversation after its stopTyping
\* the conversation:left event, with the two markers as the leave left them
conversationLeft(w, conversationId) ==
  [type |-> "conversation:left", a |-> conversationId, b |-> NULL,
   n |-> <<w.rt.activeConversationId, w.app.activeConversationId>>]

\* a leave that clears the markers whatever they refer to
leaveRest_always(w, conversationId) ==
  LET w1 == unsubscribe(unsubscribe(w, Key("messages", conversationId)),
                        Key("presence", conversationId))
      w2 == [_clearAllTypingTimers(w1) EXCEPT !.rt.activeConversationId = NULL,
                                              !.app.activeConversationId = NULL]
  IN emit(w2, conversationLeft(w2, conversationId))

leaveRest(w, conversationId) ==
  LET w1 == unsubscribe(unsubscribe(w, Key("messages", conversationId)),
                        Key("presence", conversationId))
      w2 == _clearAllTypingTimers(w1)
      w3 == IF w2.rt.activeConversationId = conversationId
            THEN [w2 EXCEPT !.rt.activeConversationId = NULL,
                            !.app.activeConversationId = NULL]
            ELSE w2
  IN emit(w3, conversationLeft(w3, conversationId))

\* leaveConversation called on its own (the back button)
leaveConversation(w, conversationId) ==
  IF w.rt.isTypingBroadcast /\ BroadcastSuspends(w, conversationId)
  THEN spawn(stopTyping(w, conversationId),
             ConvTask("leave", "stopTyping", NULL, conversationId))
  ELSE leaveRest(IF w.rt.isTypingBroadcast THEN stopTyping(w, conversationId) ELSE w,
                 conversationId)

\* enterConversation after the previous conversation was left
enterRest(w, conversationId) ==
  LET w1 == [w EXCEPT !.rt.activeConversationId = conversationId,
                      !.app.activeConversationId = conversationId]
      w2 == subscribe(w1, Key("messages", conversationId))
  IN IF w.rt.userId # NULL
     THEN spawn(subscribe(w2, Key("presence", conversationId)),
                ConvTask("enter", "markMessagesRead", conversationId, NULL))
     ELSE emit(w2, Ev("conversation:entered", conversationId, NULL))

enterConversation(w, conversationId) ==
  LET prev == w.rt.activeConversationId
  IN IF prev # NULL /\ prev # conversationId
     THEN IF w.rt.isTypingBroadcast /\ BroadcastSuspends(w, prev)
          THEN spawn(stopTyping(w, prev),
                     ConvTask("enter", "stopTyping", conversationId, prev))
          ELSE enterRest(leaveRest(IF w.rt.isTypingBroadcast THEN stopTyping(w, prev)
                                   ELSE w,
                                   prev),
                         conversationId)
     ELSE enterRest(w, conversationId)

\* ================================================================ actions
TaskBudget == BagCardinality(tasks) < budget.tasks

Without(t) == [World EXCEPT !.tasks = tasks (-) SetToBag({t})]

Outcomes == {"session", "null", "error"}

Quiet == UNCHANGED <<env, sends>>

\* window 'online'
BrowserOnline ==
  /\ cm.initialized /\ ~env.onLine /\ TaskBudget
  /\ env' = [env EXCEPT !.onLine = TRUE]
  /\ Commit("_handleOnline", "online", _handleOnline(World, FALSE))
  /\ UNCHANGED sends

\* window 'offline' -> _handleOffline
BrowserOffline ==
  /\ cm.initialized /\ env.onLine
  /\ env' = [env EXCEPT !.onLine = FALSE]
  /\ Commit("_handleOffline", "offline", _handleOffline(World))
  /\ UNCHANGED sends

\* document 'visibilitychange' to visible -> _handleVisibilityChange
TabVisible ==
  /\ cm.initialized /\ ~env.visible
  /\ env' = [env EXCEPT !.visible = TRUE]
  /\ env.now + SESSION_TIMEOUT_MS <= MaxNow
  /\ LET w == _resetSessionTimeout(emit([World EXCEPT !.cm.tabVisible = TRUE],
                                        Ev("tab:visible", NULL, NULL)),
                                   env.now)
     IN IF w.cm.status # "online" /\ env.onLine
        THEN TaskBudget /\ Commit("_handleVisibilityChange", "visible", _handleOnline(w, TRUE))
        ELSE Commit("_handleVisibilityChange", "visible", visibleTail(w))
  /\ UNCHANGED sends

VisibleReadResume ==
  \E t \in BagToSet(tasks), ok \in BOOLEAN :
    /\ t.kind = "visible" /\ t.pc = "markMessagesRead"
    /\ Commit("_handleVisibilityChange", IF ok THEN "markMessagesRead" ELSE "error",
              visibleReadResume(Without(t), t.conv, ok))
    /\ Quiet

\* document 'visibilitychange' to hidden -> _handleVisibilityChange
TabHidden ==
  /\ cm.initialized /\ env.visible
  /\ env' = [env EXCEPT !.visible = FALSE]
  /\ Commit("_handleVisibilityChange", "hidden",
            emit([World EXCEPT !.cm.tabVisible = FALSE], Ev("tab:hidden", NULL, NULL)))
  /\ UNCHANGED sends

ForceReconnect ==
  /\ cm.initialized /\ TaskBudget
  /\ Commit("forceReconnect", "call",
            spawn(_setStatus(World, "reconnecting"),
                  Task("force", "getSession", FALSE, NoFlush)))
  /\ Quiet

\* a pending backoff timer fires
ReconnectTimer ==
  \E t \in timers :
    /\ env.onLine => (TaskBudget /\ cm.reconnectAttempts < MaxCount)
    /\ Commit("attemptReconnect", "timer",
              attemptReconnect([World EXCEPT !.timers = @ \ {t}], env.onLine))
    /\ Quiet

\* the heartbeat interval fires
HeartbeatTick ==
  /\ cm.heartbeatInterval /\ cm.tabVisible /\ cm.status # "offline" /\ TaskBudget
  /\ Commit("heartbeat", "interval",
            spawn(World, Task("heartbeat", "getSession", FALSE, NoFlush)))
  /\ Quiet

HandleOnlineResume ==
  \E t \in BagToSet(tasks), outcome \in Outcomes :
    /\ t.kind = "online" /\ t.pc = "getSession"
    /\ Commit("_handleOnline", outcome,
              handleOnlineResume(Without(t), t.vis, outcome, env.now))
    /\ Quiet

ForceReconnectResume ==
  \E t \in BagToSet(tasks), outcome \in Outcomes :
    /\ t.kind = "force" /\ t.pc = "getSession"
    /\ Commit("forceReconnect", outcome, forceReconnectResume(Without(t), outcome))
    /\ Quiet

AttemptReconnectResume ==
  \E t \in BagToSet(tasks), outcome \in Outcomes, jitter \in Jitters :
    /\ t.kind = "attempt" /\ t.pc = "getSession"
    /\ Commit("attemptReconnect", outcome,
              attemptReconnectResume(Without(t), outcome, jitter))
    /\ Quiet

HeartbeatResume ==
  \E t \in BagToSet(tasks), outcome \in Outcomes :
    /\ t.kind = "heartbeat" /\ t.pc = "getSession"
    /\ Commit("heartbeat", outcome, heartbeatResume(Without(t), outcome, env.onLine))
    /\ Quiet

\* the heartbeat callback after setUserStatus settled (its failure is caught)
HeartbeatStatusResume ==
  \E t \in BagToSet(tasks) :
    /\ t.kind = "heartbeat" /\ t.pc = "setUserStatus"
    /\ Commit("heartbeat", "setUserStatus", heartbeatRecover(Without(t)))
    /\ Quiet

SignOutResume ==
  \E t \in BagToSet(tasks), ok \in BOOLEAN :
    /\ t.kind = "signOut"
    /\ Commit("signOut", IF ok THEN "ok" ELSE "error", signOutResume(Without(t), ok))
    /\ Quiet

\* UIRenderer.handleSendMessage while not online -> queueMessage
QueueMessage ==
  /\ cm.status # "online" /\ app.user # NULL
  /\ Cardinality(gone.queued) < MaxMsgs
  /\ Commit("queueMessage", "call",
            queueMessage(World, Cardinality(gone.queued) + 1, env.now))
  /\ Quiet

\* flushQueue after SupabaseService.sendMessage settled for entry fl.idx
FlushSendResume ==
  \E t \in BagToSet(tasks), ok \in BOOLEAN :
    /\ t.kind = "online" /\ t.pc = "send"
    /\ LET k == t.fl.q[t.fl.idx].key
           f == flushResume(Without(t), t.fl, ok, env.now)
       IN /\ ok => sends[k] < MaxSends
          /\ sends' = IF ok THEN [sends EXCEPT ![k] = @ + 1] ELSE sends
          /\ Commit("flushQueue", IF ok THEN "sent" ELSE "error",
                    IF f.done THEN handleOnlineReturn(handleOnlineTail(f.w), t.vis)
                    ELSE spawn(f.w, Task("online", "send", t.vis, f.fl)))
    /\ UNCHANGED env

\* ------------------------------------------ _RealtimeManager (presence)
\* AppState.merge('typingUsers', conversationId, typing)
mergeTyping(w, conversationId, typing) ==
  [w EXCEPT !.app.typingUsers = Put(@, conversationId, typing)]

_clearTypingExpireTimer(w, userId) ==
  [w EXCEPT !.rt.typingExpireTimers = Del(@, userId)]

\* the handle is kept per user; the callback remembers the conversation
_setTypingExpireTimer(w, conversationId, userId) ==
  [w EXCEPT !.rt.typingExpireTimers = Put(@, userId, conversationId)]

\* the typing set of a conversation without one user: typing.delete, merge,
\* typing:update (nothing when the conversation has no typing set yet)
dropTyping(w, conversationId, userId) ==
  IF ~Has(w.app.typingUsers, conversationId) THEN w
  ELSE LET typing == w.app.typingUsers[conversationId] \ {userId}
       IN emit(mergeTyping(w, conversationId, typing),
               EvN("typing:update", <<conversationId, typing>>))

\* the callback of a typing-expiry timer
typingExpire(w, userId) ==
  _clearTypingExpireTimer(dropTyping(w, w.rt.typingExpireTimers[userId], userId), userId)

\* the typing flag of the oldest presence record
OldestTyping(presences) == Len(presences) > 0 /\ presences[1]

\* the typing flag of the latest presence record (none: not typing)
LatestTyping(presences) == Len(presences) > 0 /\ presences[Len(presences)]

RECURSIVE presenceLoop(_, _, _, _)
presenceLoop(w, conversationId, state, todo) ==
  IF todo = {} THEN w
  ELSE LET uid == CHOOSE u \in todo : TRUE
           w1 == IF uid = w.rt.userId THEN w
                 ELSE LET w2 == [w EXCEPT !.app.onlineUsers = @ \cup {uid}]
                      IN IF LatestTyping(state[uid])
                         THEN _setTypingExpireTimer(w2, conversationId, uid)
                         ELSE _clearTypingExpireTimer(w2, uid)
       IN presenceLoop(w1, conversationId, state, todo \ {uid})

_processPresenceState(w, conversationId, state) ==
  LET typingSet == {uid \in DOMAIN state \ {w.rt.userId} : LatestTyping(state[uid])}
      w1 == presenceLoop(w, conversationId, state, DOMAIN state)
      w2 == mergeTyping(w1, conversationId, typingSet)
  IN emit(emit(w2, EvN("typing:update", <<conversationId, typingSet>>)),
          EvN("presence:updated", <<conversationId, w2.app.onlineUsers>>))

presenceJoin(w, conversationId, uid) ==
  IF uid = w.rt.userId THEN w
  ELSE emit([w EXCEPT !.app.onlineUsers = @ \cup {uid}],
            Ev("user:online", uid, conversationId))

presenceLeave(w, conversationId, uid) ==
  IF uid = w.rt.userId THEN w
  ELSE emit(dropTyping([w EXCEPT !.app.onlineUsers = @ \ {uid}], conversationId, uid),
            Ev("user:offline", uid, conversationId))

\* ----------------------------------------- _RealtimeManager (message events)
\* A message row as the client sees it.  id is <<number, conversation>>; key is
\* the idempotency key, 0 when the row has none; rows made on this client
\* carry the _optimistic flag until they are replaced.
Msg(id, key, sender, conv, status) ==
  [id |-> id, key |-> key, sender |-> sender, conv |-> conv, status |-> status,
   ciphertext |-> "ct", iv |-> "iv", optimistic |-> FALSE]

\* the row of table messages that a change event carries: every column, not
\* the client's own _optimistic flag
Columns(msg) == [f \in DOMAIN msg \ {"optimistic"} |-> msg[f]]

\* { ...a, ...b }
Spread(a, b) == [f \in DOMAIN a \cup DOMAIN b |-> IF f \in DOMAIN b THEN b[f] ELSE a[f]]

\* AppState.get('messages')[convId] ?? []
List(w, convId) == IF Has(w.app.messages, convId) THEN w.app.messages[convId] ELSE <<>>

mergeMessages(w, convId, list) == [w EXCEPT !.app.messages = Put(@, convId, list)]

Some(list, P(_)) == \E i \in 1..Len(list) : P(list[i])

\* Array.findIndex: the first index whose entry satisfies P, 0 when none does
FindIndex(list, P(_)) ==
  IF Some(list, P) THEN CHOOSE i \in 1..Len(list) :
                          P(list[i]) /\ \A j \in 1..(i - 1) : ~P(list[j])
  ELSE 0

Filter(list, P(_)) == SelectSeq(list, P)

TempId(idempKey, convId) == <<0 - idempKey, convId>>

\* UIRenderer._replaceOptimistic
_replaceOptimistic(w, convId, idempKey, realMsg) ==
  LET msgs == List(w, convId)
      IsTemp(m) == m.optimistic /\ m.id = TempId(idempKey, convId)
      SameId(m) == m.id = realMsg.id
      idx == FindIndex(msgs, IsTemp)
      msgs1 == IF idx # 0 THEN [msgs EXCEPT ![idx] = realMsg]
               ELSE IF ~Some(msgs, SameId) THEN Append(msgs, realMsg)
               ELSE msgs
  IN mergeMessages(w, convId, msgs1)

\* UIRenderer._updateOptimisticStatus
_updateOptimisticStatus(w, convId, idempKey, status) ==
  LET msgs == List(w, convId)
      IsTemp(m) == m.optimistic /\ m.id = TempId(idempKey, convId)
      idx == FindIndex(msgs, IsTemp)
  IN IF idx # 0 THEN mergeMessages(w, convId, [msgs EXCEPT ![idx].status = status])
     ELSE w

\* _onMessageInsert without the check of the idempotency key
_onMessageInsert_noKeyCheck(w, msg, visible) ==
  LET convId == msg.conv
      messages == List(w, convId)
      SameId(m) == m.id = msg.id
      w1 == mergeMessages(w, convId, Append(messages, msg))
      w2 == IF convId = w.rt.activeConversationId /\ visible
            THEN emit(w1, Ev("call:markMessagesRead", convId, w.rt.userId))
            ELSE w1
  IN IF msg.sender = w.rt.userId
     THEN _replaceOptimistic(emit(w, EvN("message:sent:confirmed", <<msg.id, msg.key>>)),
                             convId, msg.key, msg)
     ELSE IF Some(messages, SameId) THEN w
     ELSE emit(w2, EvN("message:received", <<msg.id, msg.key>>))

_onMessageInsert(w, msg, visible) ==
  LET convId == msg.conv
      messages == List(w, convId)
      SameKey(m) == m.key # 0 /\ m.key = msg.key
      SameId(m) == m.id = msg.id
      w1 == mergeMessages(w, convId, Append(messages, msg))
      w2 == IF convId = w.rt.activeConversationId /\ visible
            THEN emit(w1, Ev("call:markMessagesRead", convId, w.rt.userId))
            ELSE w1
  IN IF msg.sender = w.rt.userId
     THEN _replaceOptimistic(emit(w, EvN("message:sent:confirmed", <<msg.id, msg.key>>)),
                             convId, msg.key, msg)
     ELSE IF msg.key # 0 /\ Some(messages, SameKey) THEN w
     ELSE IF Some(messages, SameId) THEN w
     ELSE emit(w2, EvN("message:received", <<msg.id, msg.key>>))

\* an update that puts the row of the event in the place of the record
_onMessageUpdate_replace(w, newMsg) ==
  LET convId == newMsg.conv
      messages == List(w, convId)
      SameId(m) == m.id = newMsg.id
      idx == FindIndex(messages, SameId)
      w1 == IF idx # 0
            THEN mergeMessages(w, convId, [messages EXCEPT ![idx] = newMsg])
            ELSE w
  IN emit(w1, EvN("message:updated", <<newMsg.id, newMsg.key, newMsg>>))

_onMessageUpdate(w, newMsg) ==
  LET convId == newMsg.conv
      messages == List(w, convId)
      SameId(m) == m.id = newMsg.id
      idx == FindIndex(messages, SameId)
      w1 == IF idx # 0
            THEN mergeMessages(w, convId,
                   [messages EXCEPT ![idx] = Spread(messages[idx], newMsg)])
            ELSE w
  IN emit(w1, EvN("message:updated", <<newMsg.id, newMsg.key, newMsg>>))

\* obj[f], undefined when the object has no such property; as a property name
\* undefined reads "undefined"
Prop(obj, f) == IF f \in DOMAIN obj THEN obj[f] ELSE "undefined"

_onMessageDelete(w, oldMsg) ==
  LET convId == Prop(oldMsg, "conv")
      OtherId(m) == m.id # oldMsg.id
  IN emit(mergeMessages(w, convId, Filter(List(w, convId), OtherId)),
          [EvN("message:deleted", <<oldMsg.id>>) EXCEPT !.a = convId])

\* UIRenderer.openConversation -> RealtimeManager.enterConversation
EnterConversation ==
  \E c \in budget.convs :
    /\ app.user # NULL /\ rt.initialized /\ TaskBudget
    /\ Commit("enterConversation", "call", enterConversation(World, c))
    /\ Quiet

\* enterConversation after the stopTyping of its leaveConversation settled
EnterLeaveResume ==
  \E t \in BagToSet(tasks) :
    /\ t.kind = "enter" /\ t.pc = "stopTyping"
    /\ Commit("enterConversation", "stopTyping",
              enterRest(leaveRest(Without(t), t.prev), t.conv))
    /\ Quiet

\* enterConversation after markMessagesRead settled (its failure is caught)
EnterReadResume ==
  \E t \in BagToSet(tasks), ok \in BOOLEAN :
    /\ t.kind = "enter" /\ t.pc = "markMessagesRead"
    /\ Commit("enterConversation", IF ok THEN "markMessagesRead" ELSE "error",
              emit(IF ok THEN _updateUnreadCount(Without(t), t.conv, 0) ELSE Without(t),
                   Ev("conversation:entered", t.conv, NULL)))
    /\ Quiet

\* the back button -> leaveConversation(AppState.activeConversationId)
LeaveConversation ==
  /\ app.activeConversationId # NULL /\ TaskBudget
  /\ Commit("leaveConversation", "call",
            leaveConversation(World, app.activeConversationId))
  /\ Quiet

LeaveResume ==
  \E t \in BagToSet(tasks) :
    /\ t.kind = "leave" /\ t.pc = "stopTyping"
    /\ Commit("leaveConversation", "stopTyping", leaveRest(Without(t), t.prev))
    /\ Quiet

\* message input -> startTyping(AppState.activeConversationId)
StartTyping ==
  /\ app.activeConversationId # NULL
  /\ Commit("startTyping", "call",
            startTyping(emit(World, Ev("call:startTyping", app.activeConversationId, NULL)),
                        app.activeConversationId))
  /\ Quiet

\* the typing auto-stop timer fires -> stopTyping
TypingTimer ==
  /\ rt.typingBroadcastTimer # NULL
  /\ Commit("stopTyping", "timer", stopTyping(World, rt.typingBroadcastTimer))
  /\ Quiet

\* the presence records a channel can report: per member, the typing flags of
\* its presences, oldest first
Members == Others \cup {U}
PresenceLists == {<<FALSE>>, <<TRUE>>, <<FALSE, TRUE>>, <<TRUE, FALSE>>}
PresenceStates == UNION {[m -> PresenceLists] : m \in SUBSET Members}

\* a presence channel of the client reports a sync / join / leave
PresenceSync ==
  \E c \in budget.convs, state \in PresenceStates :
    /\ DOMAIN state \subseteq budget.users \cup {U}
    /\ rt.initialized /\ Key("presence", c) \in channels
    /\ Commit("presence:sync", "event",
              _processPresenceState(emit(World, EvN("presence:sync", <<c, state>>)),
                                    c, state))
    /\ Quiet

PresenceJoin ==
  \E c \in budget.convs, uid \in budget.users \cup {U} :
    /\ rt.initialized /\ Key("presence", c) \in channels
    /\ Commit("presence:join", "event",
              presenceJoin(emit(World, Ev("presence:join", c, uid)), c, uid))
    /\ Quiet

PresenceLeave ==
  \E c \in budget.convs, uid \in budget.users \cup {U} :
    /\ rt.initialized /\ Key("presence", c) \in channels
    /\ Commit("presence:leave", "event",
              presenceLeave(emit(World, Ev("presence:leave", c, uid)), c, uid))
    /\ Quiet

\* a typing-expiry timer fires
TypingExpire ==
  \E uid \in DOMAIN rt.typingExpireTimers :
    /\ Commit("typingExpire", "timer",
              typingExpire(emit(World, Ev("timer:typingExpire",
                                          rt.typingExpireTimers[uid], uid)), uid))
    /\ Quiet

\* the rows other users insert in a conversation: row i has its own id; the odd
\* rows are retries of one send and share its idempotency key, the even rows
\* carry no key
OtherKey == 50
OtherRow(i, c) ==
  Msg(<<100 + i, c>>, IF i % 2 = 1 THEN OtherKey ELSE 0,
      <<"u2", "u3", "u4">>[((i - 1) % MaxOthers) + 1], c, "sent")

\* the channel messages:<c> delivers a change of table messages
MessageInsert ==
  \E c \in budget.convs, i \in 1..MaxRows :
    /\ rt.initialized /\ Key("messages", c) \in channels
    /\ LET msg == OtherRow(i, c)
           w == emit([World EXCEPT !.gone.delivered = @ \cup {<<msg.id, msg.key>>}],
                     EvN("INSERT", <<msg.id, msg.key>>))
       IN Commit("_handleMessagePayload", "INSERT", _onMessageInsert(w, msg, env.visible))
    /\ Quiet

MessageUpdate ==
  \E c \in budget.convs, i \in 1..MaxRows :
    /\ rt.initialized /\ Key("messages", c) \in channels
    /\ LET msg == Columns([OtherRow(i, c) EXCEPT !.status = "read"])
       IN Commit("_handleMessagePayload", "UPDATE",
                 _onMessageUpdate(emit(World, EvN("UPDATE", <<msg.id, msg.key>>)), msg))
    /\ Quiet

\* ... delivers the UPDATE of a message deleted for everyone
\* (SupabaseService.deleteMessage)
MessageTombstone ==
  \E c \in budget.convs, i \in 1..MaxRows :
    /\ rt.initialized /\ Key("messages", c) \in channels
    /\ LET msg == Columns([OtherRow(i, c) EXCEPT !.status = "deleted",
                                                 !.ciphertext = NULL, !.iv = NULL])
       IN Commit("_handleMessagePayload", "UPDATE",
                 _onMessageUpdate(emit(World, EvN("UPDATE", <<msg.id, msg.key>>)), msg))
    /\ Quiet

\* the old row of a DELETE on public.messages: the table keeps the default
\* replica identity, so the change carries the primary key; all columns when
\* the deployment set the replica identity to full
OldRow(msg, full) == IF full THEN Columns(msg) ELSE [id |-> msg.id]

MessageDelete ==
  \E c \in budget.convs, i \in 1..MaxRows, full \in BOOLEAN :
    /\ rt.initialized /\ Key("messages", c) \in channels
    /\ LET msg == OldRow(OtherRow(i, c), full)
       IN Commit("_handleMessagePayload", "DELETE",
                 _onMessageDelete(emit(World, EvN("DELETE", <<msg.id>>)), msg))
    /\ Quiet

\* the channel all-messages:<uid> delivers an INSERT of any conversation
GlobalInsert ==
  \E c \in budget.convs, sender \in budget.users \cup {U} :
    /\ rt.initialized /\ Key("all-messages", rt.userId) \in channels
    /\ Count(app.unreadCounts, c) < MaxUnread
    /\ LET msg == Msg(<<100, c>>, 0, sender, c, "sent")
       IN Commit("_handleGlobalMessageInsert", "INSERT",
                 _handleGlobalMessageInsert(
                   emit(World, Ev("INSERT:all", c, sender)), msg, env.visible))
    /\ Quiet

\* App.loadUserData stores the unread counts it fetched for the conversations
LoadUnreadCounts ==
  \E counts \in [budget.convs -> 0..MaxUnread] :
    /\ app.user # NULL
    /\ Commit("loadUserData", "getUnreadCount", loadUnreadCounts(World, counts, app.user))
    /\ Quiet

\* ---------------------------------------------------------- passkey lockout
\* The failed attempts as the lockout policy counts them (gone.fails): per
\* conversation the number n of recordFailedAttempt calls since the counter
\* last started over, and the time `at` of the latest of them.
Fails(g, c) == IF Has(g.fails, c) THEN g.fails[c] ELSE [n |-> 0, at |-> 0]

LockedAt(g, c, now) ==
  /\ Fails(g, c).n >= PASSKEY_LOCKOUT_ATTEMPTS
  /\ now <= Fails(g, c).at + PASSKEY_LOCKOUT_DURATION_MS

\* Date.now() advances
Tick ==
  /\ env.now < MaxNow
  /\ Commit("clock", "tick", World)
  /\ env' = [env EXCEPT !.now = @ + 1]
  /\ UNCHANGED sends

\* UIRenderer._handlePasskeySubmit -> CryptoEngine.recordFailedAttempt(c)
RecordFailedAttempt ==
  \E c \in budget.convs :
    LET r == recordFailedAttempt(World, c, env.now)
        g == [n |-> Fails(gone, c).n + 1, at |-> env.now]
    IN /\ Fails(gone, c).n < MaxFails
       /\ Commit("recordFailedAttempt", "call",
                 emit([r.w EXCEPT !.gone.fails = Put(@, c, g)],
                      EvN("return:recordFailedAttempt", <<c, r.ret.count>>)))
       /\ Quiet

\* UIRenderer._showPasskeyModal / _handlePasskeySubmit -> CryptoEngine.isLockedOut(c)
IsLockedOut ==
  \E c \in budget.convs :
    LET r == isLockedOut(World, c, env.now)
        over == /\ Fails(gone, c).n >= PASSKEY_LOCKOUT_ATTEMPTS
                /\ ~LockedAt(gone, c, env.now)
        w1 == IF over THEN [r.w EXCEPT !.gone.fails = Del(@, c),
                                       !.gone.unlocked = @ \cup {c}]
              ELSE r.w
    IN /\ Commit("isLockedOut", "call",
                 emit(w1, Ev("return:isLockedOut", c,
                             IF r.ret THEN "true" ELSE "false")))
       /\ Quiet

\* UIRenderer._handlePasskeySubmit -> CryptoEngine.resetAttempts(c)
ResetAttempts ==
  \E c \in budget.convs :
    /\ Commit("resetAttempts", "call",
              emit([resetAttempts(World, c) EXCEPT !.gone.fails = Del(@, c)],
                   Ev("call:resetAttempts", c, NULL)))
    /\ Quiet

\* ------------------------------------------- UIRenderer._handlePasskeySubmit
NoPasskey == ""
ShortPasskey == "abc"

\* passkey.length; p1, p2, ... stand for passphrases of the minimum length or more
Length(passkey) ==
  CASE passkey = NoPasskey -> 0
    [] passkey = ShortPasskey -> 3
    [] OTHER -> PASSKEY_MIN_LENGTH

\* a _handlePasskeySubmit for conversation conv suspended at pc
SubmitTask(pc, conv, passkey) ==
  [ConvTask("_handlePasskeySubmit", pc, conv, NULL) EXCEPT !.pass = passkey]

\* m.ciphertext && m.iv
HasCipher(m) == m.ciphertext # NULL /\ m.iv # NULL

\* openConversation up to its first await: without a stored passphrase it
\* shows the modal again, which asks isLockedOut; with one it goes on to
\* enterConversation (EnterConversation) after the salt is there
openConversation(w, conversationId, now) ==
  IF Has(w.app.passkeys, conversationId)
  THEN emit(w, Ev("call:openConversation", conversationId, NULL))
  ELSE emit(isLockedOut(w, conversationId, now).w,
            Ev("call:_showPasskeyModal", conversationId, NULL))

\* a submit handler that stores the passphrase before it asks for the lockout
_handlePasskeySubmit_storeFirst(w, convId, passkey, now) ==
  IF Length(passkey) < PASSKEY_MIN_LENGTH
  THEN emit(w, Ev("passkeyError", convId, "short"))
  ELSE LET locked == isLockedOut(setPasskey(w, convId, passkey), convId, now)
       IN IF locked.ret
          THEN emit(locked.w, Ev("passkeyError", convId, "locked"))
          ELSE spawn(locked.w, SubmitTask("_ensureSalt", convId, passkey))

\* _handlePasskeySubmit up to its await of _ensureSalt
_handlePasskeySubmit(w, convId, passkey, now) ==
  IF Length(passkey) < PASSKEY_MIN_LENGTH
  THEN emit(w, Ev("passkeyError", convId, "short"))
  ELSE LET locked == isLockedOut(w, convId, now)
       IN IF locked.ret
          THEN emit(locked.w, Ev("passkeyError", convId, "locked"))
          ELSE spawn(setPasskey(locked.w, convId, passkey),
                     SubmitTask("_ensureSalt", convId, passkey))

\* after _ensureSalt (which leaves a salt behind): the test decryption of the
\* first message that has a ciphertext, when there is one
passkeySubmitSalt(w, convId, passkey, now) ==
  IF Some(List(w, convId), HasCipher)
  THEN spawn(w, SubmitTask("decrypt", convId, passkey))
  ELSE openConversation(w, convId, now)

\* the count of failed attempts recorded for a conversation
Attempts(a, c) == IF Has(a.passkeyAttempts, c) THEN a.passkeyAttempts[c].count ELSE 0

\* after the test decryption: result is "success", "failure" or "throw"
passkeySubmitDecrypt(w, convId, result, now) ==
  LET done == [type |-> "return:decrypt", a |-> convId, b |-> result,
               n |-> <<Attempts(w.app, convId)>>]
  IN CASE result = "throw" -> emit(w, done)
       [] result = "failure" ->
            openConversation(recordFailedAttempt(emit(w, done), convId, now).w, convId, now)
       [] OTHER -> openConversation(resetAttempts(emit(w, done), convId), convId, now)

\* the passkey modal's submit button, or Enter in its input
PasskeySubmit ==
  \E c \in budget.convs, passkey \in Passphrases \cup {NoPasskey, ShortPasskey} :
    /\ app.user # NULL /\ TaskBudget
    /\ Commit("_handlePasskeySubmit", "click",
              _handlePasskeySubmit(emit(World, Ev("passkey:submit", c, passkey)),
                                   c, passkey, env.now))
    /\ Quiet

PasskeySubmitSaltResume ==
  \E t \in BagToSet(tasks) :
    /\ t.kind = "_handlePasskeySubmit" /\ t.pc = "_ensureSalt"
    /\ Commit("_handlePasskeySubmit", "_ensureSalt",
              passkeySubmitSalt(Without(t), t.conv, t.pass, env.now))
    /\ Quiet

PasskeySubmitDecryptResume ==
  \E t \in BagToSet(tasks), result \in {"success", "failure", "throw"} :
    /\ t.kind = "_handlePasskeySubmit" /\ t.pc = "decrypt"
    /\ result = "failure" => Attempts(app, t.conv) < MaxFails
    /\ Commit("_handlePasskeySubmit", result,
              passkeySubmitDecrypt(Without(t), t.conv, result, env.now))
    /\ Quiet

\* ------------------------------------------------------- handleSendMessage
\* a handleSendMessage for conversation conv suspended at pc; key is its
\* idempotency key (0 before generateId), prev tells whether the server has
\* already inserted the row of a send in flight
SendTask(pc, conv, k, inserted) ==
  [ConvTask("send", pc, conv, inserted) EXCEPT !.key = k]

\* the row the server inserts for the j-th successful send of key k
OwnRow(k, j, c) == Msg(<<10 * k + j, c>>, k, U, c, "sent")

\* ------------------------------------------------- UIRenderer (page loads)
\* m.created_at. A row carries the server's stamp, which grows with the order
\* of insertion: the rows of the other users were there before the session,
\* the user's own rows are inserted during it. An optimistic entry carries a
\* reading of the client's clock, written as a negative number: how it
\* compares with the server's stamps is not known to the client.
created_at(m) ==
  IF m.optimistic THEN m.id[1]
  ELSE IF m.sender = U THEN MaxRows + m.id[1]
  ELSE m.id[1] - 100

NoBefore == 0

\* the rows of conversation c in table messages, in the order of insertion;
\* s counts the rows inserted per idempotency key, convOf is the conversation
\* of each key
Table(c, s, convOf) ==
  LET History == [i \in 1..MaxRows |-> OtherRow(i, c)]
      Own == [n \in 1..(MaxOwn * MaxSends) |->
                OwnRow(((n - 1) \div MaxSends) + 1, ((n - 1) % MaxSends) + 1, c)]
      Inserted(m) == /\ m.key \in DOMAIN convOf /\ convOf[m.key] = c
                     /\ m.id[1] - 10 * m.key <= s[m.key]
  IN History \o SelectSeq(Own, Inserted)

\* the last n entries of a list
LastOf(list, n) ==
  IF Len(list) <= n THEN list ELSE SubSeq(list, Len(list) - n + 1, Len(list))

\* SupabaseService.getMessages(c, { limit, before }): the newest `limit` rows
\* with created_at < before (all rows without `before`), oldest first. For a
\* `before` read from the client's clock the server's answer is the rows up
\* to some point of the table, `older` of them.
getMessages(table, limit, before, older) ==
  LET Older(m) == created_at(m) < before
      rows == IF before = NoBefore THEN table
              ELSE IF before < 0 THEN SubSeq(table, 1, older)
              ELSE SelectSeq(table, Older)
  IN LastOf(rows, limit)

\* AppState.get('messagePagination')[c] || { hasMore: true, loading: false }
Pagination(w, c) ==
  IF Has(w.app.messagePagination, c) THEN w.app.messagePagination[c]
  ELSE [hasMore |-> TRUE, loading |-> FALSE]

mergePagination(w, c, value) == [w EXCEPT !.app.messagePagination = Put(@, c, value)]

\* a _loadMessages(conv, before) suspended in getMessages; hasMore is the
\* pagination it read, from is "open" or "scroll"
LoadTask(from, conv, before, hasMore) ==
  [ConvTask("load", from, conv, NULL) EXCEPT !.key = before, !.vis = hasMore]

\* merged.filter(m => !seen.has(m.id) && seen.add(m.id))
RECURSIVE uniqueById(_, _)
uniqueById(list, seen) ==
  IF list = <<>> THEN <<>>
  ELSE IF Head(list).id \in seen THEN uniqueById(Tail(list), seen)
  ELSE <<Head(list)>> \o uniqueById(Tail(list), seen \cup {Head(list).id})

\* UIRenderer._loadMessages up to its await of getMessages
_loadMessages(w, conversationId, before, from) ==
  LET pagination == Pagination(w, conversationId)
  IN IF pagination.loading THEN w
     ELSE IF before = NoBefore /\ ~pagination.hasMore /\ Len(List(w, conversationId)) > 0
       THEN w
     ELSE spawn(mergePagination(w, conversationId, [pagination EXCEPT !.loading = TRUE]),
                LoadTask(from, conversationId, before, pagination.hasMore))

\* UIRenderer._loadMessages from the point where getMessages has settled
loadResume(w, conversationId, before, hasMore, ok, msgs) ==
  IF ~ok THEN mergePagination(w, conversationId, [hasMore |-> hasMore, loading |-> FALSE])
  ELSE LET existing == IF before # NoBefore THEN List(w, conversationId) ELSE <<>>
           merged == IF before # NoBefore THEN msgs \o existing ELSE msgs
           unique == uniqueById(merged, {})
       IN mergePagination(mergeMessages(w, conversationId, unique), conversationId,
                          [hasMore |-> Len(msgs) >= MESSAGE_PAGE_SIZE, loading |-> FALSE])

\* this._loadingOlder: true from _handleScrollTop's call of _loadMessages to
\* its return
_loadingOlder(w) == \E t \in BagToSet(w.tasks) : t.kind = "load" /\ t.pc = "scroll"

\* UIRenderer._handleScrollTop with the container scrolled to its top
_handleScrollTop(w) ==
  LET convId == w.app.activeConversationId
      msgs == List(w, convId)
  IN IF _loadingOlder(w) \/ convId = NULL THEN w
     ELSE IF ~Has(w.app.messagePagination, convId) THEN w
     ELSE IF ~w.app.messagePagination[convId].hasMore
             \/ w.app.messagePagination[convId].loading THEN w
     ELSE IF msgs = <<>> THEN w
     ELSE _loadMessages(w, convId, created_at(msgs[1]), "scroll")

Optimistic(k, c) ==
  [Msg(TempId(k, c), 0, U, c, "sending") EXCEPT !.optimistic = TRUE]

\* handleSendMessage after stopTyping: generateId, the optimistic insert, then
\* the awaits of renderMessages and CryptoEngine.encrypt
sendOptimistic(w, convId, k) ==
  LET w1 == mergeMessages(w, convId, Append(List(w, convId), Optimistic(k, convId)))
  IN spawn([w1 EXCEPT !.gone.convOf = Put(@, k, convId)],
           SendTask("encrypt", convId, k, NULL))

\* handleSendMessage after encrypt settled
sendEncrypted(w, convId, k, ok, now) ==
  IF ~ok THEN _updateOptimisticStatus(w, convId, k, "failed")
  ELSE IF w.cm.status # "online"
       THEN _updateOptimisticStatus(queueMessage(w, k, now), convId, k, "queued")
  ELSE spawn(w, SendTask("sendMessage", convId, k, NULL))

\* handleSendMessage after SupabaseService.sendMessage settled
sendSettled(w, convId, k, ok, sent) ==
  IF ok THEN _replaceOptimistic(w, convId, k, sent)
  ELSE _updateOptimisticStatus(w, convId, k, "failed")

\* the send button / Enter key
SendMessage ==
  LET convId == app.activeConversationId
      k == Cardinality(DOMAIN gone.convOf) + 1
  IN /\ convId # NULL /\ app.user # NULL /\ Has(app.passkeys, convId)
     /\ k <= MaxOwn /\ TaskBudget
     /\ Commit("handleSendMessage", "call",
               IF BroadcastSuspends(World, convId)
               THEN spawn(stopTyping(World, convId), SendTask("stopTyping", convId, 0, NULL))
               ELSE sendOptimistic(stopTyping(World, convId), convId, k))
     /\ Quiet

SendTypingResume ==
  \E t \in BagToSet(tasks) :
    LET k == Cardinality(DOMAIN gone.convOf) + 1
    IN /\ t.kind = "send" /\ t.pc = "stopTyping"
       /\ k <= MaxOwn
       /\ Commit("handleSendMessage", "stopTyping", sendOptimistic(Without(t), t.conv, k))
       /\ Quiet

SendEncryptResume ==
  \E t \in BagToSet(tasks), ok \in BOOLEAN :
    /\ t.kind = "send" /\ t.pc = "encrypt"
    /\ Commit("handleSendMessage", IF ok THEN "encrypt" ELSE "error",
              sendEncrypted(Without(t), t.conv, t.key, ok, env.now))
    /\ Quiet

\* the server inserts the row of a send in flight and its INSERT event
\* arrives before the response of the send
EchoBeforeResponse ==
  \E t \in BagToSet(tasks) :
    /\ t.kind = "send" /\ t.pc = "sendMessage" /\ t.prev = NULL
    /\ rt.initialized /\ Key("messages", t.conv) \in channels
    /\ sends[t.key] < MaxSends
    /\ sends' = [sends EXCEPT ![t.key] = @ + 1]
    /\ LET msg == OwnRow(t.key, sends[t.key] + 1, t.conv)
           w == emit(spawn(Without(t), [t EXCEPT !.prev = "inserted"]),
                     EvN("INSERT", <<msg.id, msg.key>>))
       IN Commit("_handleMessagePayload", "INSERT", _onMessageInsert(w, msg, env.visible))
    /\ UNCHANGED env

SendResume ==
  \E t \in BagToSet(tasks), ok \in BOOLEAN :
    /\ t.kind = "send" /\ t.pc = "sendMessage"
    /\ LET inserted == t.prev # NULL
           j == IF inserted THEN sends[t.key] ELSE sends[t.key] + 1
       IN /\ (ok /\ ~inserted) => sends[t.key] < MaxSends
          /\ sends' = IF ok /\ ~inserted THEN [sends EXCEPT ![t.key] = @ + 1] ELSE sends
          /\ Commit("handleSendMessage", IF ok THEN "sent" ELSE "error",
                    sendSettled(Without(t), t.conv, t.key, ok, OwnRow(t.key, j, t.conv)))
    /\ UNCHANGED env

\* the server inserts the row of a send in flight; neither its INSERT event
\* nor the response of the send has arrived yet
ServerInsert ==
  \E t \in BagToSet(tasks) :
    /\ t.kind = "send" /\ t.pc = "sendMessage" /\ t.prev = NULL
    /\ sends[t.key] < MaxSends
    /\ sends' = [sends EXCEPT ![t.key] = @ + 1]
    /\ Commit("server", "insert", spawn(Without(t), [t EXCEPT !.prev = "inserted"]))
    /\ UNCHANGED env

\* openConversation, after enterConversation has returned -> _loadMessages
LoadMessages ==
  LET convId == app.activeConversationId
  IN /\ convId # NULL /\ app.user # NULL /\ TaskBudget
     /\ Commit("_loadMessages", "open", _loadMessages(World, convId, NoBefore, "open"))
     /\ Quiet

\* the scroll handler of the message area, scrolled to the top
ScrollTop ==
  /\ app.user # NULL /\ TaskBudget
  /\ Commit("_handleScrollTop", "scroll", _handleScrollTop(World))
  /\ Quiet

\* getMessages settles: with the rows the server holds, or with an error
LoadResume ==
  \E t \in BagToSet(tasks), ok \in BOOLEAN :
    LET table == Table(t.conv, sends, gone.convOf)
    IN \E older \in 0..Len(table) :
         /\ t.kind = "load"
         /\ (t.key >= 0 \/ ~ok) => older = 0
         /\ Commit("_loadMessages", IF ok THEN "page" ELSE "error",
                   loadResume(Without(t), t.conv, t.key, t.vis, ok,
                              getMessages(table, MESSAGE_PAGE_SIZE, t.key, older)))
         /\ Quiet

\* the channel messages:<c> delivers the INSERT of a row of the local user
OwnInsert ==
  \E k \in DOMAIN gone.convOf :
    \E j \in 1..sends[k] :
      /\ rt.initialized /\ Key("messages", gone.convOf[k]) \in channels
      /\ LET msg == OwnRow(k, j, gone.convOf[k])
             w == emit(World, EvN("INSERT", <<msg.id, msg.key>>))
         IN Commit("_handleMessagePayload", "INSERT", _onMessageInsert(w, msg, env.visible))
      /\ Quiet

\* ------------------------------------------- CryptoEngine (encrypt, decrypt)
\* A string that is meant to hold base-64: the empty string, a string of
\* whitespace only (atob reads it as no bytes), the encoding of `bytes`, or a
\* string atob rejects. `box` tells what AES-GCM accepts the bytes as: the
\* <<key, iv, plaintext bytes>> they were sealed with, <<>> for bytes that no
\* key authenticates.
B64(kind, bytes, box) == [kind |-> kind, bytes |-> bytes, box |-> box]
EmptyString == B64("empty", <<>>, <<>>)
Blank == B64("blank", <<>>, <<>>)
Malformed == B64("malformed", <<>>, <<>>)

\* JavaScript truthiness of a string
Truthy(str) == str.kind # "empty"

bufferToBase64(buffer) ==
  B64(IF Len(buffer.bytes) = 0 THEN "empty" ELSE "b64", buffer.bytes, buffer.box)

\* base64ToBuffer: atob throws on a string that is not base-64
base64ToBuffer(base64) ==
  IF base64.kind = "malformed" THEN [threw |-> TRUE, bytes |-> <<>>, box |-> <<>>]
  ELSE [threw |-> FALSE, bytes |-> base64.bytes, box |-> base64.box]

\* TextEncoder.encode: a text is the sequence of its UTF-16 code units, its
\* encoding is written as the code points the UTF-8 bytes stand for; an
\* unpaired surrogate is encoded as U+FFFD
encode(str) ==
  [i \in 1..Len(str) |-> IF str[i] = SURROGATE THEN REPLACEMENT ELSE str[i]]

\* TextDecoder.decode: a leading byte order mark is dropped
decode(buf) == IF Len(buf) > 0 /\ buf[1] = BOM THEN Tail(buf) ELSE buf

\* crypto.subtle.encrypt with AES-GCM: as many bytes as the plaintext has, then
\* the tag
seal(key, iv, data) ==
  [bytes |-> [i \in 1..(Len(data) + TAG_LENGTH) |->
                (37 * i + (IF i <= Len(data) THEN data[i] ELSE Len(iv))) % 256],
   box |-> <<key, iv, data>>]

\* crypto.subtle.decrypt with AES-GCM: throws unless the bytes were sealed
\* with this key and this iv
open(key, iv, ct) ==
  IF Len(ct.box) = 3 /\ ct.box[1] = key /\ ct.box[2] = iv /\ Len(iv) > 0
  THEN [threw |-> FALSE, plain |-> ct.box[3]]
  ELSE [threw |-> TRUE, plain |-> <<>>]

MissingParameters == [threw |-> TRUE, ciphertext |-> EmptyString, iv |-> EmptyString]

\* CryptoEngine.encrypt; iv is the value of getRandomBytes
encrypt(plaintext, passkey, saltBase64, iv) ==
  IF Len(plaintext) = 0 \/ passkey = "" \/ ~Truthy(saltBase64) THEN MissingParameters
  ELSE LET salt == base64ToBuffer(saltBase64)
           key == deriveKey(passkey, salt.bytes)
           ct == seal(key, iv, encode(plaintext))
       IN IF salt.threw THEN MissingParameters
          ELSE [threw |-> FALSE, ciphertext |-> bufferToBase64(ct),
                iv |-> bufferToBase64([bytes |-> iv, box |-> <<>>])]

\* the lock sign followed by "Missing decryption data" (first letter only)
MissingText == <<128274, SPACE, 77>>
\* the lock sign followed by six bullets (first bullet only)
LockText == <<128274, SPACE, 8226>>

ranges ==
  <<<<3584, 3711>>, <<4256, 4351>>, <<1328, 1423>>,
    <<8704, 8959>>, <<1024, 1279>>, <<12352, 12447>>>>


\* the loop of generateGibberish from byte i (counted from 0) on
RECURSIVE gibberishLoop(_, _, _)
gibberishLoop(bytes, i, len) ==
  IF i >= len THEN <<>>
  ELSE LET r == ranges[(bytes[i + 1] % Len(ranges)) + 1]
           ch == r[1] + (bytes[i + 1] % (r[2] - r[1]))
       IN <<ch>> \o (IF i > 0 /\ i % 7 = 0 THEN <<SPACE>> ELSE <<>>)
               \o gibberishLoop(bytes, i + 1, len)

generateGibberish(ciphertextB64) ==
  LET buf == base64ToBuffer(ciphertextB64)
      out == gibberishLoop(buf.bytes, 0, Min(Len(buf.bytes), GIBBERISH_BYTES))
  IN IF buf.threw THEN [threw |-> TRUE, text |-> <<>>]
     ELSE [threw |-> FALSE, text |-> IF Len(out) = 0 THEN LockText ELSE out]

Failure(g) == [threw |-> g.threw, text |-> g.text, success |-> FALSE]

\* decrypt whose placeholder is taken from the passphrase as well
decrypt_keyedPlaceholder(ciphertextB64, ivB64, passkey, saltBase64) ==
  IF \/ ~Truthy(ciphertextB64) \/ ~Truthy(ivB64)
     \/ passkey = "" \/ ~Truthy(saltBase64)
  THEN [threw |-> FALSE, text |-> MissingText, success |-> FALSE]
  ELSE LET salt == base64ToBuffer(saltBase64)
           key == deriveKey(passkey, salt.bytes)
           iv == base64ToBuffer(ivB64)
           ct == base64ToBuffer(ciphertextB64)
           plain == open(key, iv.bytes, ct)
           g == generateGibberish(ciphertextB64)
       IN IF salt.threw \/ iv.threw \/ ct.threw \/ plain.threw
          THEN Failure([g EXCEPT !.text = @ \o (IF passkey = "p1" THEN <<SPACE>> ELSE <<>>)])
          ELSE [threw |-> FALSE, text |-> decode(plain.plain), success |-> TRUE]

\* CryptoEngine.decrypt
decrypt(ciphertextB64, ivB64, passkey, saltBase64) ==
  IF \/ ~Truthy(ciphertextB64) \/ ~Truthy(ivB64)
     \/ passkey = "" \/ ~Truthy(saltBase64)
  THEN [threw |-> FALSE, text |-> MissingText, success |-> FALSE]
  ELSE LET salt == base64ToBuffer(saltBase64)
           key == deriveKey(passkey, salt.bytes)
           iv == base64ToBuffer(ivB64)
           ct == base64ToBuffer(ciphertextB64)
           plain == open(key, iv.bytes, ct)
       IN IF salt.threw \/ iv.threw \/ ct.threw \/ plain.threw
          THEN Failure(generateGibberish(ciphertextB64))
          ELSE [threw |-> FALSE, text |-> decode(plain.plain), success |-> TRUE]

\* the arguments the crypto functions are called with
RECURSIVE TextsUpTo(_)
TextsUpTo(n) ==
  IF n = 0 THEN {<<>>}
  ELSE TextsUpTo(n - 1) \cup
       {Append(t, c) : t \in TextsUpTo(n - 1), c \in {LETTER, SURROGATE, BOM}}

Texts == TextsUpTo(MaxText)
PasskeyInputs == Passphrases \cup {""}
SaltInputs == {EmptyString, Malformed, B64("b64", <<1, 2>>, <<>>)}
RandomIVs == {<<5>>, <<6>>}
IvInputs == {EmptyString, Malformed} \cup {B64("b64", iv, <<>>) : iv \in RandomIVs}
\* ciphertexts that were not produced by encrypt, of 0, 1, 9 and 41 bytes, and
\* one that was
CiphertextInputs ==
  {EmptyString, Blank, Malformed, B64("b64", <<200>>, <<>>),
   B64("b64", [i \in 1..9 |-> 29 * i], <<>>),
   B64("b64", [i \in 1..41 |-> 6 * i], <<>>),
   encrypt(<<LETTER>>, "p1", B64("b64", <<1, 2>>, <<>>), <<5>>).ciphertext}

\* the results of the encrypt calls among the events es
Encrypted(es) ==
  {es[i].n[4] : i \in {j \in 1..Len(es) : es[j].type = "return:encrypt"}}

\* CryptoEngine.encrypt(plaintext, passkey, salt)
Encrypt ==
  \E plaintext \in Texts, passkey \in PasskeyInputs, salt \in SaltInputs,
     iv \in RandomIVs :
    /\ Commit("encrypt", "call",
              emit(World, EvN("return:encrypt",
                              <<plaintext, passkey, salt,
                                encrypt(plaintext, passkey, salt, iv)>>)))
    /\ Quiet

\* CryptoEngine.decrypt(ciphertext, iv, passkey, salt), also of what the last
\* encrypt returned
Decrypt ==
  \E ct \in CiphertextInputs \cup {r.ciphertext : r \in Encrypted(emitted)},
     iv \in IvInputs \cup {r.iv : r \in Encrypted(emitted)},
     passkey \in PasskeyInputs, salt \in SaltInputs :
    /\ Commit("decrypt", "call",
              emit(World, EvN("return:decrypt",
                              <<ct, iv, passkey, salt, decrypt(ct, iv, passkey, salt)>>)))
    /\ Quiet

\* ------------------------------------------------------ keys and teardown
\* CryptoEngine.setPasskey(c, p) (UIRenderer._handlePasskeySubmit)
SetPasskey ==
  \E c \in budget.convs, p \in Passphrases :
    /\ app.user # NULL
    /\ Commit("setPasskey", "call",
              emit(setPasskey(World, c, p), Ev("call:setPasskey", c, p)))
    /\ Quiet

\* CryptoEngine.getKey(c, p, salt), called with the passphrase stored for c
\* and the salt of c
GetKey ==
  \E c \in budget.convs :
    /\ Has(app.passkeys, c) /\ TaskBudget
    /\ Commit("getKey", "call", getKey(World, c, app.passkeys[c], Salt(c)))
    /\ Quiet

GetKeyResume ==
  \E t \in BagToSet(tasks), ok \in BOOLEAN :
    /\ t.kind = "getKey"
    /\ Commit("getKey", IF ok THEN "ok" ELSE "error",
              getKeyResume(Without(t), t.conv, t.pass, Salt(t.conv), ok))
    /\ Quiet

\* the logout button
Logout ==
  /\ app.user # NULL /\ TaskBudget
  /\ Commit("logout", "click", logout(World))
  /\ Quiet

LogoutResume ==
  \E t \in BagToSet(tasks), ok \in BOOLEAN :
    /\ t.kind = "logout"
    /\ Commit("logout", IF ok THEN "ok" ELSE "error", logoutResume(Without(t), ok))
    /\ Quiet

\* the auth listener is told that the session ended elsewhere (another tab
\* signed out, or the refresh token was rejected)
SignedOut ==
  /\ app.user # NULL
  /\ Commit("_handleAuthChange", "SIGNED_OUT", _handleAuthChange(World, "SIGNED_OUT"))
  /\ Quiet

\* the inactivity timer fires
SessionTimeout ==
  \E t \in sessionTimers :
    /\ env.now >= t.at + SESSION_TIMEOUT_MS /\ TaskBudget
    /\ Commit("sessionTimeout", "timer",
              sessionTimeout([World EXCEPT !.sessionTimers = @ \ {t}]))
    /\ Quiet

\* mousedown, keydown, touchstart or scroll -> the throttled activity handler
Activity ==
  \E passes \in Throttled(env.now, cm.activityLast) :
    /\ cm.initialized
    /\ env.now + SESSION_TIMEOUT_MS <= MaxNow
    /\ Commit("activity", IF passes THEN "reset" ELSE "throttled",
              activity(World, env.now, passes))
    /\ Quiet

\* window 'beforeunload'
BeforeUnload ==
  \E fetchThrows \in BOOLEAN, beaconThrows \in BOOLEAN :
    /\ cm.initialized
    /\ Commit("beforeunload",
              IF fetchThrows /\ beaconThrows THEN "throws" ELSE "event",
              _handleBeforeUnload(World, fetchThrows, beaconThrows))
    /\ Quiet

\* ================================================================== Init
\* The application after App.init: a session was restored (user set,
\* RealtimeManager.init done) or not, and ConnectivityManager.init has run.
InitFor(b, t, convs, users) ==
  \E onLine \in BOOLEAN, visible \in BOOLEAN, user \in {NULL, U} :
    /\ budget = [tasks |-> b, timers |-> t, convs |-> convs, users |-> users]
    /\ last = Ran("init", "init")
    /\ env = [onLine |-> onLine, visible |-> visible, now |-> 0]
    /\ cm = [initialized |-> TRUE,
             status |-> IF onLine THEN "online" ELSE "offline",
             reconnectInterval |-> NoTimer, heartbeatInterval |-> TRUE,
             reconnectAttempts |-> 0, tabVisible |-> visible, sessionTimeout |-> 1,
             activityLast |-> -2]
    /\ sessionTimers = {[id |-> 1, at |-> 0]}
    /\ app = [InitialAppState EXCEPT
                !.user = user,
                !.connectionStatus = IF onLine THEN "connected" ELSE "disconnected"]
    /\ timers = {}
    /\ tasks = EmptyBag
    /\ sends = [k \in 1..(MaxMsgs + 1) |-> 0]
    /\ watchers = [of |-> [k \in WatchedKeys |-> <<>>], handles |-> {},
                   on |-> [e \in BusEvents |-> <<>>]]
    /\ gone = [queued |-> {}, expired |-> {}, wiped |-> {}, delivered |-> {},
                watching |-> {},
               fails |-> <<>>, unlocked |-> {}, convOf |-> <<>>]
    /\ emitted = <<>>
    /\ rt = [activeConversationId |-> NULL, isTypingBroadcast |-> FALSE,
             typingBroadcastTimer |-> NULL, typingExpireTimers |-> <<>>,
             userId |-> user, initialized |-> user # NULL]
    /\ tracked = {}
    /\ channels = IF user = NULL THEN {}
                  ELSE {Key("all-messages", user), Key("contacts", user)}

InitWith(b, t) == InitFor(b, t, Conversations, Others)

Init == InitWith(MaxTasks, MaxTimers)

\* The connectivity state machine (the offline queue stays empty).
Next ==
  \/ BrowserOnline
  \/ BrowserOffline
  \/ TabVisible
  \/ TabHidden
  \/ ForceReconnect
  \/ ReconnectTimer
  \/ HeartbeatTick
  \/ HandleOnlineResume
  \/ ForceReconnectResume
  \/ AttemptReconnectResume
  \/ HeartbeatResume
  \/ HeartbeatStatusResume
  \/ SignOutResume

Spec == Init /\ [][Next]_vars

\* The offline queue under reconnections (backoff timers do not fire).
NextQueue ==
  \/ BrowserOnline
  \/ BrowserOffline
  \/ TabVisible
  \/ TabHidden
  \/ ForceReconnect
  \/ HandleOnlineResume
  \/ ForceReconnectResume
  \/ QueueMessage
  \/ FlushSendResume
  \/ SignOutResume

SpecQueue == Init /\ [][NextQueue]_vars

\* The connectivity state machine with MaxOverlap suspended invocations and
\* MaxLoops pending backoff timers.
InitCalm == InitWith(MaxOverlap, MaxLoops)

SpecCalm == InitCalm /\ [][Next]_vars

\* The realtime sync engine's channel lifecycle for a signed-in user, under
\* reconnections by the online signal.
InitRT == Init /\ app.user = U

NextRT ==
  \/ EnterConversation
  \/ EnterLeaveResume
  \/ EnterReadResume
  \/ LeaveConversation
  \/ LeaveResume
  \/ StartTyping
  \/ TypingTimer
  \/ BrowserOffline
  \/ BrowserOnline
  \/ HandleOnlineResume
  \/ SignOutResume

SpecRT == InitRT /\ [][NextRT]_vars

\* Typing and presence of the open conversation for a signed-in user, under
\* reconnections by the online signal.
InitPresence ==
  /\ InitFor(MaxOverlap, MaxLoops, {"c1", "c2"}, {"u2"})
  /\ app.user = U /\ env.visible /\ env.onLine

NextPresence ==
  \/ EnterConversation
  \/ EnterLeaveResume
  \/ EnterReadResume
  \/ LeaveConversation
  \/ LeaveResume
  \/ StartTyping
  \/ TypingTimer
  \/ PresenceSync
  \/ PresenceJoin
  \/ PresenceLeave
  \/ TypingExpire
  \/ BrowserOffline
  \/ BrowserOnline
  \/ HandleOnlineResume

SpecPresence == InitPresence /\ [][NextPresence]_vars

\* ... where every pending typing-expiry timer fires in the end.
SpecExpiry == SpecPresence /\ WF_vars(TypingExpire)

\* The presence events of an open conversation.
InitSnapshot ==
  /\ InitFor(MaxOverlap, MaxLoops, {"c1"}, Peers)
  /\ app.user = U /\ env.onLine /\ env.visible

NextSnapshot ==
  \/ EnterConversation
  \/ EnterReadResume
  \/ LeaveConversation
  \/ PresenceSync
  \/ PresenceJoin
  \/ PresenceLeave
  \/ TypingExpire

SpecSnapshot == InitSnapshot /\ [][NextSnapshot]_vars

\* One conversation's message list under the change events of its channel.
InitInbox ==
  /\ InitFor(MaxOverlap, MaxLoops, {"c1"}, Others)
  /\ app.user = U /\ env.onLine

NextInbox ==
  \/ EnterConversation
  \/ EnterReadResume
  \/ LeaveConversation
  \/ MessageInsert
  \/ MessageUpdate
  \/ MessageDelete
  \/ TabVisible
  \/ TabHidden
  \/ VisibleReadResume

SpecInbox == InitInbox /\ [][NextInbox]_vars

\* The message list of an open conversation under inserts and updates,
\* tombstones among them.
NextUpdates ==
  \/ EnterConversation
  \/ EnterReadResume
  \/ MessageInsert
  \/ MessageUpdate
  \/ MessageTombstone

SpecUpdates == InitInbox /\ [][NextUpdates]_vars

\* The unread counters under the global message feed.
InitUnread ==
  /\ InitFor(MaxOverlap, MaxLoops, {"c1", "c2"}, Others)
  /\ app.user = U /\ env.onLine

NextUnread ==
  \/ EnterConversation
  \/ EnterReadResume
  \/ LeaveConversation
  \/ GlobalInsert
  \/ TabVisible
  \/ TabHidden
  \/ VisibleReadResume

SpecUnread == InitUnread /\ [][NextUnread]_vars

\* The unread counters under every handler that writes them: the feed, the two
\* mark-reads, the load of the counts and the reset of a sign-out.
NextCounters ==
  \/ EnterConversation
  \/ EnterReadResume
  \/ GlobalInsert
  \/ TabVisible
  \/ TabHidden
  \/ VisibleReadResume
  \/ LoadUnreadCounts
  \/ Logout
  \/ LogoutResume

InitCounters ==
  /\ InitFor(MaxTasks, MaxLoops, {"c1", "c2"}, {"u2"})
  /\ app.user = U /\ env.onLine

SpecCounters == InitCounters /\ [][NextCounters]_vars

\* The passkey lockout of two conversations under a running clock.
InitLockout ==
  /\ InitFor(MaxOverlap, MaxLoops, {"c1", "c2"}, {"u2"})
  /\ app.user = U /\ env.visible /\ env.onLine

NextLockout ==
  \/ Tick
  \/ RecordFailedAttempt
  \/ IsLockedOut
  \/ ResetAttempts

SpecLockout == InitLockout /\ [][NextLockout]_vars

\* The key store of two conversations.
InitKeys ==
  /\ InitFor(MaxOverlap, MaxLoops, {"c1", "c2"}, {"u2"})
  /\ app.user = U /\ env.visible /\ env.onLine

NextKeys ==
  \/ SetPasskey
  \/ GetKey
  \/ GetKeyResume

SpecKeys == InitKeys /\ [][NextKeys]_vars

\* Passphrase submissions for a conversation with messages, under a running
\* clock.
NextSubmit ==
  \/ Tick
  \/ EnterConversation
  \/ EnterReadResume
  \/ MessageInsert
  \/ PasskeySubmit
  \/ PasskeySubmitSaltResume
  \/ PasskeySubmitDecryptResume
  \/ GetKey
  \/ GetKeyResume

SpecSubmit == InitInbox /\ [][NextSubmit]_vars

\* The teardown paths of a signed-in session holding passphrases.
NextTeardown ==
  \/ SetPasskey
  \/ Logout
  \/ LogoutResume
  \/ SessionTimeout
  \/ Tick
  \/ HeartbeatTick
  \/ HeartbeatResume
  \/ HeartbeatStatusResume
  \/ SignOutResume
  \/ BeforeUnload

SpecTeardown == InitKeys /\ [][NextTeardown]_vars

\* One conversation with page loads: the first page, older pages, sends and
\* the INSERT events of the user's own and of the other users' rows.
InitPages ==
  /\ InitFor(MaxTasks, MaxLoops, {"c1"}, {"u2"})
  /\ app.user = U /\ env.visible /\ env.onLine

NextPages ==
  \/ SetPasskey
  \/ EnterConversation
  \/ EnterReadResume
  \/ LoadMessages
  \/ ScrollTop
  \/ LoadResume
  \/ SendMessage
  \/ SendTypingResume
  \/ SendEncryptResume
  \/ ServerInsert
  \/ SendResume
  \/ OwnInsert
  \/ MessageInsert

SpecPages == InitPages /\ [][NextPages]_vars

\* Sending in one conversation: direct sends, the offline queue and its
\* flushes, and the INSERT events of the sender's own rows.
InitMessages ==
  /\ InitFor(MaxTasks, MaxLoops, {"c1"}, {"u2"})
  /\ app.user = U /\ ~env.visible /\ env.onLine

NextMessages ==
  \/ SetPasskey
  \/ EnterConversation
  \/ EnterReadResume
  \/ SendMessage
  \/ SendTypingResume
  \/ SendEncryptResume
  \/ EchoBeforeResponse
  \/ SendResume
  \/ OwnInsert
  \/ BrowserOnline
  \/ BrowserOffline
  \/ TabVisible
  \/ VisibleReadResume
  \/ HandleOnlineResume
  \/ FlushSendResume

SpecMessages == InitMessages /\ [][NextMessages]_vars

\* the callbacks registered as watchers of one of the keys or as handlers of
\* one of the events
Registered(keys, events) ==
  UNION ({Range(watchers.of[k]) : k \in keys} \cup {Range(watchers.on[e]) : e \in events})

\* AppState.watch(key, callback)
Watch ==
  \E key \in WatchedKeys, callback \in Callbacks :
    /\ Commit("watch", "call", watch(World, key, callback))
    /\ Quiet

\* a call of an unsubscribe handle returned by watch
Unwatch ==
  \E h \in watchers.handles :
    /\ Commit("unwatch", "call", unwatch(World, h[1], h[2]))
    /\ Quiet

\* AppState.set(key, value); the callbacks in `throws` throw when called
Set ==
  \E key \in WatchedKeys :
    \E value \in ValuesOf(key), throws \in SUBSET Registered({key}, BusEvents) :
      /\ Commit("set", "call", set(World, key, value, throws))
      /\ Quiet

\* eventBus.on(event, callback)
On ==
  \E event \in BusEvents, callback \in Callbacks :
    /\ Commit("on", "call", on(World, event, callback))
    /\ Quiet

\* eventBus.emit(event, data)
Emit ==
  \E event \in BusEvents :
   \E throws \in SUBSET Registered({}, {event}) :
    /\ Commit("emit", "call",
              eventBusEmit(emit(World, Ev("call:emit", event, NULL)),
                           Ev(event, "data", NULL), throws))
    /\ Quiet

\* AppState.batch({ k1: v1, k2: v2 }) with the two keys in either order
Batch ==
  \E k1 \in WatchedKeys, throws \in SUBSET Registered(WatchedKeys, {}) :
    \E k2 \in WatchedKeys \ {k1} :
      \E v1 \in ValuesOf(k1), v2 \in ValuesOf(k2) :
        LET updates == <<(<<k1, v1>>), (<<k2, v2>>)>>
        IN /\ Commit("batch", "call",
                     batch(emit(World, EvN("call:batch", updates)), updates, throws))
           /\ Quiet

\* AppState.merge('unreadCounts', c, n)
Merge ==
  \E c \in budget.convs, n \in 0..1, throws \in SUBSET Registered({"unreadCounts"}, {}) :
    /\ Commit("merge", "call",
              merge(emit(World, EvN("call:merge", <<"unreadCounts", c, n>>)),
                    "unreadCounts", c, n, throws))
    /\ Quiet

\* Entering and leaving conversations while typing, with no reconnection.
InitLeave ==
  /\ InitFor(MaxTasks, MaxLoops, {"c1", "c2"}, {"u2"})
  /\ app.user = U /\ env.visible /\ env.onLine

NextLeave ==
  \/ EnterConversation
  \/ EnterLeaveResume
  \/ EnterReadResume
  \/ LeaveConversation
  \/ LeaveResume
  \/ StartTyping
  \/ TypingTimer

SpecLeave == InitLeave /\ [][NextLeave]_vars

\* Entering and leaving conversations, and the ways a session ends.
NextMarkers ==
  \/ EnterConversation
  \/ EnterLeaveResume
  \/ EnterReadResume
  \/ LeaveConversation
  \/ LeaveResume
  \/ StartTyping
  \/ Logout
  \/ LogoutResume
  \/ SignedOut

SpecMarkers == InitLeave /\ [][NextMarkers]_vars

\* The inactivity timer of a running supervisor under a running clock.
NextSession ==
  \/ Tick
  \/ Activity
  \/ TabVisible
  \/ TabHidden
  \/ SessionTimeout
  \/ SignOutResume

SpecSession == InitKeys /\ [][NextSession]_vars

\* ... where the clock runs on, a timer that is due fires and a pending
\* sign-out settles.
SpecSessionFair ==
  SpecSession /\ WF_vars(Tick) /\ WF_vars(SessionTimeout) /\ WF_vars(SignOutResume)

NextStore ==
  \/ Watch
  \/ Unwatch
  \/ Set

SpecStore == InitKeys /\ [][NextStore]_vars

\* The store and the bus with watchers and handlers that may throw.
NextBus ==
  \/ Watch
  \/ On
  \/ Set
  \/ Batch
  \/ Merge
  \/ Emit

InitBus ==
  /\ InitFor(MaxOverlap, MaxLoops, {"c1"}, {"u2"})
  /\ app.user = U /\ env.visible /\ env.onLine

SpecBus == InitBus /\ [][NextBus]_vars

\* Entering, leaving and typing in conversations under reconnections, with the
\* small budget of suspended invocations.
SpecResubscribe == InitKeys /\ [][NextRT]_vars

\* The offline queue and its flushes under a running clock.
NextFlush ==
  \/ Tick
  \/ BrowserOnline
  \/ BrowserOffline
  \/ QueueMessage
  \/ HandleOnlineResume
  \/ FlushSendResume
  \/ SignOutResume

SpecFlush == InitKeys /\ [][NextFlush]_vars

\* Calls of encrypt and decrypt over the argument sets above.
NextCrypto ==
  \/ Encrypt
  \/ Decrypt

SpecCrypto == InitKeys /\ [][NextCrypto]_vars

\* Calls of decrypt alone.
NextDecrypt == Decrypt

SpecDecrypt == InitKeys /\ [][NextDecrypt]_vars

\* ================================================================= claims
Keys(q) == {q[i].key : i \in 1..Len(q)}

Flushes(ts) == {t \in BagToSet(ts) : t.kind = "online" /\ t.pc = "send"}

\* the entries a suspended flush still has to send or has kept for the queue
Held(t) == Keys(t.fl.remaining) \cup {t.fl.q[i].key : i \in t.fl.idx..Len(t.fl.q)}

Valid(q, now) == {q[i].key : i \in {j \in 1..Len(q) : ~Expired(q[j], now)}}

\* C1: under any interleaving of flushes, each queued entry (idempotency key)
\* has a successful sendMessage at most once.
C1_AtMostOneSend ==
  \A k \in DOMAIN sends : sends[k] <= 1

\* C2: an entry added by queueMessage leaves the queue only because a flush
\* sent it or found it expired (sign-out/reset aside): every queued entry is in
\* the stored queue, held by a flush in progress, sent, expired or wiped.
C2_NoSilentDrop ==
  \A k \in gone.queued :
    \/ k \in Keys(app.messageQueue)
    \/ \E t \in Flushes(tasks) : k \in Held(t)
    \/ sends[k] > 0
    \/ k \in gone.expired
    \/ k \in gone.wiped

\* C3: every step that brings the status back to online by a reconnection
\* leaves the attempt counter at 0, the realtime subscriptions re-established
\* and every still-valid queued entry attempted: the queue holds no valid
\* entry, or a flush that covers the valid entries is in progress.
C3_Reconnected ==
  /\ cm'.reconnectAttempts = 0
  /\ app'.user # NULL =>
       \E i \in 1..Len(emitted') : emitted'[i].type = "realtime:reconnect"
  /\ \/ Valid(app'.messageQueue, env'.now) = {}
     \/ \E t \in Flushes(tasks') : Valid(app'.messageQueue, env'.now) \subseteq Held(t)

C3_ReconnectFlushes ==
  [][(/\ last'.handler \in {"_handleOnline", "forceReconnect", "attemptReconnect"}
      /\ last'.with = "session")
     => (cm'.status = "online" /\ C3_Reconnected)]_vars

Failed == {"null", "error"}

Changes(es) == SelectSeq(es, LAMBDA e : e.type = "connectivity:change")

\* C4: when the backoff loop's attempt fails with the counter at the cap (15
\* attempts made since the last success), status is offline and no reconnect
\* timer is pending: the loop has stopped.
C4_LoopStopsAtCap ==
  [][(/\ last'.handler = "attemptReconnect" /\ last'.with \in Failed
      /\ cm.reconnectAttempts >= MAX_ATTEMPTS)
     => (cm'.status = "offline" /\ timers' = {} /\ cm'.reconnectInterval = NoTimer)]_vars

\* C5: the reconnect-attempt counter is between 0 and 15 in every reachable state.
C5_CounterSaturates ==
  cm.reconnectAttempts \in 0..MAX_ATTEMPTS

\* C6: every transition of the status to online leaves the attempt counter at 0.
C6_OnlineResetsCounter ==
  [][(cm.status # "online" /\ cm'.status = "online") => cm'.reconnectAttempts = 0]_vars

\* C7: a step in which a reconnect attempt finds no live session (and emits
\* session:expired) schedules no further reconnect attempt.
C7_SessionFailureNotRetried ==
  [][(/\ last'.handler \in {"_handleOnline", "forceReconnect", "attemptReconnect"}
      /\ last'.with = "null")
     => (/\ \E i \in 1..Len(emitted') : emitted'[i].type = "session:expired"
         /\ timers' \subseteq timers)]_vars

HeartbeatSucceeded ==
  /\ last.handler = "heartbeat"
  /\ last.with = "setUserStatus" \/ (last.with = "session" /\ app.user = NULL)

\* C9: a heartbeat that fails while status is online leaves status reconnecting
\* with a reconnect attempt scheduled; a heartbeat that succeeds while status
\* is reconnecting sets status to online.
C9_HeartbeatTransitions ==
  [][/\ (last' = Ran("heartbeat", "error") /\ cm.status = "online")
          => (cm'.status = "reconnecting" /\ cm'.reconnectInterval \in timers')
     /\ (HeartbeatSucceeded' /\ cm.status = "reconnecting") => cm'.status = "online"]_vars

ConversationChannels == {k \in channels : k[1] \in {"messages", "presence"}}

\* C10: message/presence channels are held for at most one conversation at a
\* time, under any interleaving of enterConversation, leaveConversation and
\* resubscribeActive.
C10_OneConversationSubscribed ==
  \A k1, k2 \in ConversationChannels : k1[2] = k2[2]

Emitted(es, type) == {i \in 1..Len(es) : es[i].type = type}

NoTypingTimers(r) ==
  r.typingBroadcastTimer = NULL /\ DOMAIN r.typingExpireTimers = {}

\* the step completed a leaveConversation
Left == Emitted(emitted', "conversation:left") # {}

\* the step ran resubscribeActive for an open conversation
Resubscribed ==
  /\ Emitted(emitted', "realtime:reconnect") # {}
  /\ cm.initialized /\ rt.activeConversationId # NULL

\* the conversation whose timer the step fired, if it fired one
FiredFor ==
  {emitted'[i].a : i \in Emitted(emitted', "timer:typingExpire")}
    \cup (IF last' = Ran("stopTyping", "timer") THEN {rt.typingBroadcastTimer} ELSE {})

\* C11: leaving a conversation or re-subscribing it after a reconnection cancels
\* every per-conversation timer: once leaveConversation has completed, and once
\* a reconnection's resubscribeActive has run, no typing-expiry timer and no
\* typing auto-stop timer is pending; and no such timer fires for a conversation
\* whose channels are torn down.
C11_TimersCancelled ==
  [][/\ (Left \/ Resubscribed) => NoTypingTimers(rt')
     /\ \A c \in FiredFor : Key("presence", c) \in channels]_vars

\* the rows (<<id, key>>) whose INSERT event a channel delivered in the step
Delivery(es) == {es[i].n : i \in Emitted(es, "INSERT")}

ListOf(a, c) == IF c \in DOMAIN a.messages THEN a.messages[c] ELSE <<>>

\* the entries of a list that stand for a row: same id, or same idempotency key
Matches(list, d) ==
  {j \in 1..Len(list) : list[j].id = d[1] \/ (d[2] # 0 /\ list[j].key = d[2])}

\* the row, or a row with its idempotency key, was delivered before
SeenBefore(d) ==
  \E e \in gone.delivered : e[1] = d[1] \/ (d[2] # 0 /\ e[2] = d[2])

C14_GlobalInsertUnread ==
  [][\A i \in Emitted(emitted', "INSERT:all") :
       LET c == emitted'[i].a
           sender == emitted'[i].b
           notified == Emitted(emitted', "notification:message")
       IN /\ sender = rt.userId => (app' = app /\ notified = {})
          /\ (sender # rt.userId /\ c = rt.activeConversationId /\ env.visible)
               => /\ app'.unreadCounts = app.unreadCounts
                  /\ app'.totalUnread = app.totalUnread
                  /\ notified = {}
          /\ (sender # rt.userId /\ ~(c = rt.activeConversationId /\ env.visible))
               => /\ Count(app'.unreadCounts, c) = Count(app.unreadCounts, c) + 1
                  /\ \A x \in Conversations \ {c} :
                       Count(app'.unreadCounts, x) = Count(app.unreadCounts, x)
                  /\ app'.totalUnread = app.totalUnread + 1
                  /\ Cardinality(notified) = 1]_vars

\* a message for the active conversation arrived while the tab was hidden and
\* was counted, another conversation holding unread messages already
C14_Witness ==
  /\ last = Ran("_handleGlobalMessageInsert", "INSERT")
  /\ ~env.visible
  /\ \E i \in Emitted(emitted, "INSERT:all") :
       /\ emitted[i].a = rt.activeConversationId
       /\ Emitted(emitted, "notification:message") # {}
       /\ app.totalUnread > Count(app.unreadCounts, emitted[i].a)

\* C15: after a presence snapshot for conversation c is processed,
\* typingUsers[c] is exactly the set of members other than the local user whose
\* last presence record carries the typing flag; the local user is never in a
\* typing set and is never added to the online set.
C15_SnapshotTyping ==
  [][/\ \A i \in Emitted(emitted', "presence:sync") :
          LET c == emitted'[i].n[1]
              state == emitted'[i].n[2]
          IN /\ c \in DOMAIN app'.typingUsers
             /\ app'.typingUsers[c] =
                  {u \in DOMAIN state \ {U} : state[u][Len(state[u])]}
     /\ U \notin app'.onlineUsers
     /\ \A c \in DOMAIN app'.typingUsers : U \notin app'.typingUsers[c]]_vars

\* a snapshot in which the local user is typing, and another member whose
\* earlier record did not carry the flag is typing now
C15_Witness ==
  \E i \in Emitted(emitted, "presence:sync") :
    LET c == emitted[i].n[1]
        state == emitted[i].n[2]
    IN /\ U \in DOMAIN state /\ state[U] = <<TRUE>>
       /\ \E u \in DOMAIN state \ {U} : state[u] = <<FALSE, TRUE>>
       /\ app.typingUsers[c] # {}

Typing(u, c) == c \in DOMAIN app.typingUsers /\ u \in app.typingUsers[c]

\* C16: typing membership expires: a user in a conversation's typing set leaves
\* it again (within the typing timeout of the last update that set the flag), so
\* no user stays in a typing set for ever without a fresh update.
C16_TypingExpires ==
  \A c \in Conversations, u \in Others : Typing(u, c) ~> ~Typing(u, c)

\* the typing broadcasts of the step that carry the flag
Broadcasts(es, flag) == {i \in Emitted(es, "call:broadcastTyping") : es[i].b = flag}

\* C17: startTyping broadcasts typing=true only if the client is not already
\* broadcasting, so two typing=true are never sent on a presence channel without
\* a typing=false in between; every startTyping for the open conversation
\* (re)schedules the auto-stop timer; stopTyping sends one typing=false and leaves
\* no auto-stop timer pending; startTyping for a conversation that is not the
\* open one sends nothing and schedules nothing.
C17_TypingBroadcasts ==
  [][/\ \A i \in Broadcasts(emitted', "true") : emitted'[i].a \notin tracked
     /\ Cardinality(Broadcasts(emitted', "true")) <= 1
     /\ \A i \in Emitted(emitted', "call:startTyping") :
          LET c == emitted'[i].a
          IN IF c = rt.activeConversationId
             THEN /\ rt'.typingBroadcastTimer = c
                  /\ rt.isTypingBroadcast => Broadcasts(emitted', "true") = {}
                  /\ ~rt.isTypingBroadcast =>
                       {emitted'[j].a : j \in Broadcasts(emitted', "true")} = {c}
             ELSE /\ rt' = rt /\ tracked' = tracked
                  /\ Emitted(emitted', "call:broadcastTyping") = {}
     /\ \A i \in Emitted(emitted', "call:stopTyping") :
          /\ Cardinality({j \in Broadcasts(emitted', "false") :
                            emitted'[j].a = emitted'[i].a}) = 1
          /\ rt'.typingBroadcastTimer = NULL]_vars

\* the events of one type among es
Returned(es, type) == {es[i] : i \in Emitted(es, type)}

\* C18: isLockedOut(c) returns false after fewer than 5 recordFailedAttempt(c)
\* calls since the counter started over, returns true from the 5th call on
\* for as long as the lockout duration has not elapsed since the latest failed
\* attempt, and the first call after it has elapsed returns false and starts
\* the counter over; recordFailedAttempt(c) returns the number of calls since
\* the counter started over, so 1 for the first call after an expired lockout.
C18_LockoutBoundary ==
  [][/\ \A e \in Returned(emitted', "return:isLockedOut") :
          /\ e.b = (IF LockedAt(gone, e.a, env.now) THEN "true" ELSE "false")
          /\ (Fails(gone, e.a).n >= PASSKEY_LOCKOUT_ATTEMPTS
                 /\ ~LockedAt(gone, e.a, env.now))
               => ~Has(app'.passkeyAttempts, e.a)
     /\ \A e \in Returned(emitted', "return:recordFailedAttempt") :
          e.n[2] = Fails(gone, e.n[1]).n + 1]_vars

\* a lockout of c1 has expired at an isLockedOut call and the next failed
\* attempt was counted as the first
C18_Witness ==
  /\ "c1" \in gone.unlocked
  /\ last.handler = "recordFailedAttempt"
  /\ \E e \in Returned(emitted, "return:recordFailedAttempt") : e.n = <<"c1", 1>>
  /\ env.now > PASSKEY_LOCKOUT_DURATION_MS

\* C19: every key returned by getKey(c, p, salt) is the key derived from p
\* and salt, never a cached key derived from another passphrase.
C19_KeyOfPassphrase ==
  \A e \in Returned(emitted, "return:getKey") :
    e.n[2] = deriveKey(e.b, e.n[1])

\* C20: after App.logout, SupabaseService.signOut or the page-unload handler
\* has run, whether or not a step of it failed, the store holds no passphrase
\* and no derived key.
C20_TeardownClearsKeys ==
  (\/ last.handler = "beforeunload"
   \/ last.handler \in {"logout", "signOut"} /\ last.with \in {"ok", "error"})
  => DOMAIN app.passkeys = {} /\ DOMAIN app.derivedKeys = {}

\* the entries of conversation c's list that stand for the logical message
\* of idempotency key k: the optimistic entry and the rows carrying the key
EntriesOf(c, k) ==
  {i \in 1..Len(ListOf(app, c)) :
     \/ ListOf(app, c)[i].key = k
     \/ ListOf(app, c)[i].id = TempId(k, c)}

\* C12: the local list never holds two entries for one of the user's own
\* messages, and after the INSERT event of the user's own row was handled
\* it holds exactly one, which is not the optimistic entry.
C12_OwnInsertConfirms ==
  \A k \in DOMAIN gone.convOf :
    LET c == gone.convOf[k]
    IN /\ Cardinality(EntriesOf(c, k)) <= 1
       /\ (last.handler = "_handleMessagePayload"
             /\ \E e \in Returned(emitted, "INSERT") : e.n[2] = k)
          => \E i \in EntriesOf(c, k) : ~ListOf(app, c)[i].optimistic

\* C21: decrypt never throws, and a failing decrypt returns a non-empty text.
C21_DecryptNeverThrows ==
  \A e \in Returned(emitted, "return:decrypt") :
    /\ ~e.n[5].threw
    /\ ~e.n[5].success => Len(e.n[5].text) > 0

\* C22: decrypting what encrypt returned for a non-empty plaintext, with the
\* same passphrase and salt, returns the plaintext with success; with another
\* passphrase it fails.
C22_RoundTrip ==
  [][\A e \in Returned(emitted, "return:encrypt") :
       \A d \in Returned(emitted', "return:decrypt") :
         (/\ ~e.n[4].threw
          /\ d.n[1] = e.n[4].ciphertext /\ d.n[2] = e.n[4].iv /\ d.n[4] = e.n[3]
          /\ d.n[3] # "")
         => /\ ~d.n[5].threw
            /\ d.n[3] = e.n[2] => d.n[5].success /\ d.n[5].text = e.n[1]
            /\ d.n[3] # e.n[2] => ~d.n[5].success]_vars

\* two failing decrypt calls in a row on the same ciphertext
FailedTwice(d1, d2) ==
  /\ d1.n[1] = d2.n[1]
  /\ ~d1.n[5].threw /\ ~d1.n[5].success
  /\ ~d2.n[5].threw /\ ~d2.n[5].success

AllGiven(d) == Truthy(d.n[1]) /\ Truthy(d.n[2]) /\ d.n[3] # "" /\ Truthy(d.n[4])

FlushDone == Returned(emitted, "flush:done")
Flushed == Returned(emitted, "queue:flushed")

\* the age of an examined entry exceeded the expiry window
TooOld(x) == x.old

With(seen, result) == {i \in 1..Len(seen) : seen[i].result = result}

\* C24: flushQueue never calls send for an entry older than the expiry
\* window when it is examined; such an entry is not in the queue the flush
\* stores, is counted in failed, and is counted neither in sent nor in
\* remaining.
C24_ExpiredDropped ==
  /\ \A t \in BagToSet(tasks) :
       t.kind = "online" /\ t.pc = "send"
         => LET x == t.fl.seen[Len(t.fl.seen)]
            IN x.key = t.fl.q[t.fl.idx].key /\ x.result = "pending" /\ ~TooOld(x)
  /\ \A d \in FlushDone : \A f \in Flushed :
       LET seen == d.n[1]
           old == {i \in 1..Len(seen) : TooOld(seen[i])}
       IN /\ old = With(seen, "none")
          /\ \A i \in old : seen[i].key \notin Keys(app.messageQueue)
          /\ f.n[1] = Cardinality(With(seen, "sent"))
          /\ f.n[2] = Cardinality(old) + Cardinality(With(seen, "error"))
          /\ f.n[3] = Cardinality(With(seen, "error"))

\* a flush has dropped an expired entry and sent a younger one
C24_Witness ==
  \E d \in FlushDone :
    /\ \E i \in With(d.n[1], "none") : TooOld(d.n[1][i])
    /\ With(d.n[1], "sent") # {}

IsError(x) == x.result = "error"

\* C25: a flushQueue with no concurrent queue operation examines the entries of
\* the queue in the order they were queued; afterwards the queue holds exactly
\* the entries whose send failed, in that order; sent + failed is the number of
\* entries examined and remaining is the length of the queue.
C25_FifoFlush ==
  \A d \in FlushDone : \A f \in Flushed :
    d.b = "solo" =>
      LET seen == d.n[1]
          kept == SelectSeq(seen, IsError)
      IN /\ d.n[2] = [i \in 1..Len(seen) |-> Entry(seen[i].key, seen[i].queuedAt)]
         /\ \A i \in 1..Len(seen), j \in 1..Len(seen) :
              i < j => seen[i].key < seen[j].key
         /\ app.messageQueue = [i \in 1..Len(kept) |-> Entry(kept[i].key, kept[i].queuedAt)]
         /\ f.n[1] + f.n[2] = Len(seen)
         /\ f.n[3] = Len(app.messageQueue)

\* a flush on its own has examined two entries and both sends failed
C25_Witness ==
  \E d \in FlushDone :
    /\ d.b = "solo"
    /\ Cardinality(With(d.n[1], "error")) >= 2
    /\ Len(app.messageQueue) >= 2

\* the calls of `type` on the channel named kind:id among the events es
Calls(es, type, kind, id) ==
  {i \in Emitted(es, type) : es[i].a = kind /\ es[i].b = id}

ChannelsOfConversations(ch) == {k \in ch : k[1] \in {"messages", "presence"}}

\* C26: a successful reconnection announces realtime:reconnect once; with an
\* active conversation its message channel and its presence channel are each
\* torn down once and then rebuilt once, and both exist afterwards; with no
\* active conversation no conversation channel is created or removed.
C26_ResubscribedOnce ==
  [][Emitted(emitted', "realtime:reconnect") # {} =>
       LET c == rt.activeConversationId
           es == emitted'
       IN /\ Cardinality(Emitted(es, "realtime:reconnect")) = 1
          /\ c # NULL =>
               /\ \A kind \in {"messages", "presence"} :
                    /\ Cardinality(Calls(es, "call:unsubscribe", kind, c)) = 1
                    /\ Cardinality(Calls(es, "call:subscribe", kind, c)) = 1
                    /\ \A i \in Calls(es, "call:unsubscribe", kind, c),
                          j \in Calls(es, "call:subscribe", kind, c) : i < j
                    /\ Key(kind, c) \in channels'
               /\ ChannelsOfConversations(channels') =
                    ChannelsOfConversations(channels) \cup {Key("messages", c), Key("presence", c)}
          /\ c = NULL =>
               /\ \A i \in Emitted(es, "call:subscribe") :
                    es[i].a \notin {"messages", "presence"}
               /\ ChannelsOfConversations(channels') = ChannelsOfConversations(channels)
    ]_vars

\* a reconnection has rebuilt the channels of the open conversation
C26_Witness ==
  /\ Emitted(emitted, "realtime:reconnect") # {}
  /\ rt.activeConversationId # NULL
  /\ \A kind \in {"messages", "presence"} :
       /\ Calls(emitted, "call:subscribe", kind, rt.activeConversationId) # {}
       /\ Key(kind, rt.activeConversationId) \in channels

\* a reconnection has run while no conversation was open
C26_WitnessIdle ==
  /\ Emitted(emitted, "realtime:reconnect") # {}
  /\ rt.activeConversationId = NULL
  /\ Emitted(emitted, "call:subscribe") # {}

\* the invocations of callback cb as a watcher of key among the events es
Invoked(es, key, cb) ==
  {i \in Emitted(es, "watcher") : es[i].a = key /\ es[i].b = cb}

\* C27: a set(key, value) step stores the value, invokes every callback that
\* is watching the key exactly once with (value, old value), invokes no
\* callback unsubscribed since it was last registered, and emits state:change
\* and state:<key> and no other bus event.
C27_SetNotifies ==
  [][last'.handler = "set" =>
       LET es == emitted'
           key == es[Len(es) - 1].a
           value == es[Len(es) - 1].n[1]
           old == es[Len(es) - 1].n[2]
       IN /\ es[Len(es) - 1].type = "state:change"
          /\ es[Len(es)].type = "state:" \o key
          /\ es[Len(es)].n = <<value, old>>
          /\ \A i \in 1..(Len(es) - 2) : es[i].type = "watcher"
          /\ old = app[key] /\ app' = [app EXCEPT ![key] = value]
          /\ \A cb \in Callbacks :
               IF <<key, cb>> \in gone.watching
               THEN /\ Cardinality(Invoked(es, key, cb)) = 1
                    /\ \A i \in Invoked(es, key, cb) :
                         es[i].n[1] = value /\ es[i].n[2] = old
               ELSE Invoked(es, key, cb) = {}
          /\ \A i \in Emitted(es, "watcher") : es[i].a = key
    ]_vars

\* a set has notified two watchers of its key, one of which threw, while a
\* callback unsubscribed earlier stayed silent on the other key
C27_Witness ==
  /\ last.handler = "set"
  /\ Cardinality(Emitted(emitted, "watcher")) >= 2
  /\ \E i \in Emitted(emitted, "watcher") : emitted[i].n[3]
  /\ \E h \in watchers.handles : h \notin gone.watching
  /\ emitted[Len(emitted)].n[1] # emitted[Len(emitted)].n[2]

\* the steps that call _resetSessionTimeout
ResetStep(l) ==
  \/ l.handler = "activity" /\ l.with = "reset"
  \/ l.handler = "_handleVisibilityChange" /\ l.with = "visible"

\* C28: at most one inactivity timer is pending; a reset leaves exactly the
\* timer it sets, with a full window ahead; the timer fires no earlier than
\* a full window after it was set, emits session:timeout once and leaves no
\* timer pending; and a pending timer that is neither reset nor cleared fires.
C28_SessionTimeout ==
  /\ [](Cardinality(sessionTimers) <= 1)
  /\ [][/\ ResetStep(last') =>
             sessionTimers' = {[id |-> cm'.sessionTimeout, at |-> env'.now]}
        /\ last'.handler = "sessionTimeout" =>
             /\ Cardinality(Emitted(emitted', "session:timeout")) = 1
             /\ \A t \in sessionTimers : env.now >= t.at + SESSION_TIMEOUT_MS
             /\ sessionTimers' = {}]_vars
  /\ \A at \in 0..MaxNow :
       (\E t \in sessionTimers : t.at = at)
         ~> (last.handler = "sessionTimeout" \/ ~(\E t \in sessionTimers : t.at = at))

\* the inactivity timer was reset by an interaction and has then fired
C28_Witness ==
  /\ last.handler = "sessionTimeout"
  /\ Emitted(emitted, "session:timeout") # {}
  /\ cm.activityLast > 0
  /\ sessionTimers = {}

\* C29: when leaveConversation(id) reaches its last step, it sets the sync
\* engine's and the store's active-conversation marker to null if the
\* engine's marker is id, and leaves both as they are otherwise.
C29_LeaveClearsOwnMarker ==
  [][\A e \in Returned(emitted', "conversation:left") :
       /\ e.n = IF rt.activeConversationId = e.a
                THEN <<NULL, NULL>>
                ELSE <<rt.activeConversationId, app.activeConversationId>>
       /\ last'.handler = "leaveConversation" =>
            e.n = <<rt'.activeConversationId, app'.activeConversationId>>
    ]_vars

\* a leave of one conversation has finished while another one was active
C29_Witness ==
  /\ last.handler = "leaveConversation"
  /\ \E e \in Returned(emitted, "conversation:left") :
       e.n[1] \notin {NULL, e.a} /\ e.n[2] = e.n[1]
  /\ rt.activeConversationId # NULL

\* a leave has cleared the markers of the conversation it was called for
C29_WitnessCleared ==
  /\ last.handler = "leaveConversation"
  /\ \E e \in Returned(emitted, "conversation:left") : e.n = <<NULL, NULL>>

\* no invocation of any handler is suspended
Quiescent == tasks = EmptyBag

\* C39: whenever no handler is suspended, the sync engine's active
\* conversation and the store's activeConversationId are the same value
\* (the same conversation, or both null).
C39_MarkersAgree == Quiescent => rt.activeConversationId = app.activeConversationId

\* C40: no conversation's list of the store holds two records with the same
\* id.
C40_NoDuplicateIds ==
  \A c \in Conversations :
    \A i, j \in 1..Len(ListOf(app, c)) :
      ListOf(app, c)[i].id = ListOf(app, c)[j].id => i = j

\* the indices of the records of list that have the id of row
Holding(list, row) == {i \in 1..Len(list) : list[i].id = row.id}

\* C30: an UPDATE event whose id is in the conversation's list changes, on the
\* first record with that id, the fields the event carries to the event's
\* values and nothing else: the other fields of the record, its index, the
\* length of the list and every other record stay; an UPDATE event whose id is
\* not in the list leaves the stored messages as they are.
C30_UpdateInPlace ==
  [][last'.handler = "_handleMessagePayload" /\ last'.with = "UPDATE" =>
       \A e \in Returned(emitted', "message:updated") :
         LET newMsg == e.n[3]
             old == ListOf(app, newMsg.conv)
             new == ListOf(app', newMsg.conv)
             hits == Holding(old, newMsg)
         IN IF hits = {} THEN app'.messages = app.messages
            ELSE LET idx == CHOOSE i \in hits : \A j \in hits : i <= j
                 IN /\ Len(new) = Len(old)
                    /\ \A i \in 1..Len(old) : i # idx => new[i] = old[i]
                    /\ DOMAIN new[idx] = DOMAIN old[idx] \cup DOMAIN newMsg
                    /\ \A f \in DOMAIN newMsg : new[idx][f] = newMsg[f]
                    /\ \A f \in DOMAIN old[idx] \ DOMAIN newMsg : new[idx][f] = old[idx][f]
                    /\ new[idx].id = old[idx].id
                    /\ \A c \in DOMAIN app.messages \ {newMsg.conv} :
                         ListOf(app', c) = ListOf(app, c)
    ]_vars

\* the second record of a list has been made a tombstone by an UPDATE event
C30_Witness ==
  /\ last.handler = "_handleMessagePayload" /\ last.with = "UPDATE"
  /\ \E e \in Returned(emitted, "message:updated") :
       LET list == ListOf(app, e.n[3].conv)
       IN /\ e.n[3].ciphertext = NULL
          /\ \E i \in Holding(list, e.n[3]) :
               i >= 2 /\ list[i].ciphertext = NULL /\ list[i].status = "deleted"

\* an UPDATE event for a message that is not in the list has been handled
C30_WitnessAbsent ==
  /\ last.handler = "_handleMessagePayload" /\ last.with = "UPDATE"
  /\ \E e \in Returned(emitted, "message:updated") :
       /\ ListOf(app, e.n[3].conv) # <<>>
       /\ Holding(ListOf(app, e.n[3].conv), e.n[3]) = {}

\* C31: after a DELETE event for message m of conversation c, c's list holds
\* no record with id m, holds every other record it held, in the same order,
\* and the lists of the other conversations are unchanged.
C31_DeleteRemoves ==
  [][\A e \in Returned(emitted', "DELETE") :
       LET m == e.n[1]
           c == m[2]
           NotM(x) == x.id # m
       IN /\ ListOf(app', c) = SelectSeq(ListOf(app, c), NotM)
          /\ \A x \in Conversations \ {c} : ListOf(app', x) = ListOf(app, x)]_vars

\* isLockedOut(c) is true: five or more failures and the lockout not over
LockedOut(a, c, now) ==
  /\ Attempts(a, c) >= PASSKEY_LOCKOUT_ATTEMPTS
  /\ now <= a.passkeyAttempts[c].lockedUntil

\* C32: a passphrase submission for a conversation that is locked out is
\* rejected and changes nothing: the stored passphrases, the derived-key cache
\* and the failed-attempt counters are as before and the handler goes no
\* further; a submission whose test decryption succeeds leaves the
\* conversation without a failed-attempt counter.
C32_LockedSubmitRejected ==
  [][/\ \A e \in Returned(emitted', "passkey:submit") :
          LockedOut(app, e.a, env.now) =>
            /\ app'.passkeys = app.passkeys
            /\ app'.derivedKeys = app.derivedKeys
            /\ app'.passkeyAttempts = app.passkeyAttempts
            /\ tasks' = tasks
            /\ Emitted(emitted', "passkeyError") # {}
     /\ \A e \in Returned(emitted', "return:decrypt") :
          e.b = "success" => Attempts(app', e.a) = 0]_vars

\* a passphrase of valid length, other than the stored one, was submitted
\* during the lockout while a derived key is cached
C32_Witness ==
  \E e \in Returned(emitted, "passkey:submit") :
    /\ LockedOut(app, e.a, env.now)
    /\ e.b \in Passphrases
    /\ Has(app.passkeys, e.a) /\ app.passkeys[e.a] # e.b
    /\ Has(app.derivedKeys, e.a)

\* a test decryption succeeded after failures were recorded
C32_WitnessReset ==
  \E e \in Returned(emitted, "return:decrypt") :
    e.b = "success" /\ e.n[1] > 0 /\ Attempts(app, e.a) = 0

\* C33: the delays the backoff loop schedules after failed attempts never
\* decrease within a run and never exceed the ceiling of 30 seconds; stated
\* here by its consequence that no such delay is shorter than the first delay
\* of the run, the base interval, and none is longer than the ceiling.
C33_DelaysNeverShrink ==
  \A e \in Returned(emitted, "setTimeout") :
    /\ e.n[2] >= RECONNECT_INTERVAL_MS
    /\ e.n[2] <= MAX_RECONNECT_DELAY

\* the invocations that are inside a _reconnect
Reconnecting(ts) == {t \in BagToSet(ts) : t.kind \in {"online", "force", "attempt"}}

\* C34: the offline signal sets the status to offline whatever it was and
\* starts nothing: the pending timers, the invocations in flight, the loop's
\* handle and the attempt counter are as before; and when no timer is pending
\* and no reconnect is in flight, only the online signal, forceReconnect, a
\* visibility change or a heartbeat creates a timer or begins a reconnect.
C34_OfflineStartsNoLoop ==
  [][/\ last'.handler = "_handleOffline" =>
          /\ cm'.status = "offline"
          /\ timers' = timers
          /\ tasks' = tasks
          /\ cm'.reconnectInterval = cm.reconnectInterval
          /\ cm'.reconnectAttempts = cm.reconnectAttempts
     /\ (timers = {} /\ Reconnecting(tasks) = {}
           /\ (timers' # {} \/ Reconnecting(tasks') # {})) =>
          last'.handler \in {"_handleOnline", "forceReconnect",
                             "_handleVisibilityChange", "heartbeat"}]_vars

\* the offline signal arrived while the status was reconnecting and the loop's
\* timer was pending: the status is offline and the timer still pending
C34_Witness ==
  /\ last.handler = "_handleOffline"
  /\ cm.status = "offline"
  /\ timers # {}
  /\ \E e \in Returned(emitted, "connectivity:change") : e.b = "reconnecting"

\* the offline signal arrived while the status was online
C34_WitnessOnline ==
  /\ last.handler = "_handleOffline"
  /\ \E e \in Returned(emitted, "connectivity:change") : e.b = "online"

\* the invocations of callback cb as a handler of event among the events es
Handled(es, event, cb) ==
  {i \in Emitted(es, "handler") : es[i].a = event /\ es[i].b = cb}

\* every watcher of key and every handler of the bus event was invoked once
AllInvoked(es, key) ==
  /\ \A cb \in Range(watchers.of[key]) : Cardinality(Invoked(es, key, cb)) = 1
  /\ \A e \in BusEvents :
       Emitted(es, e) # {} =>
         \A cb \in Range(watchers.on[e]) : Cardinality(Handled(es, e, cb)) = 1

\* C35: whichever watchers and bus handlers throw, set, batch, merge and emit
\* run to their end: no exception leaves them, the value is stored, every
\* watcher of every key written and every handler of every event emitted is
\* invoked once, and the closing bus event of the operation is emitted.
C35_ThrowsContained ==
  [][LET es == emitted'
     IN /\ last'.handler \in {"set", "batch", "merge", "emit"} =>
             Emitted(es, "throw") = {}
        /\ last'.handler = "set" =>
             \E key \in WatchedKeys :
               /\ es[Len(es)].type = "state:" \o key
               /\ app' = [app EXCEPT ![key] = es[Len(es)].n[1]]
               /\ Emitted(es, "state:change") # {}
               /\ AllInvoked(es, key)
        /\ \A e \in Returned(es, "call:batch") :
             /\ app' = [app EXCEPT ![e.n[1][1]] = e.n[1][2], ![e.n[2][1]] = e.n[2][2]]
             /\ es[Len(es)].type = "state:batch"
             /\ \A i \in 1..2 : /\ SubSeq(es[Len(es)].n[i], 1, 2) = e.n[i]
                                /\ AllInvoked(es, e.n[i][1])
        /\ \A e \in Returned(es, "call:merge") :
             /\ app'[e.n[1]][e.n[2]] = e.n[3]
             /\ \A x \in DOMAIN app[e.n[1]] \ {e.n[2]} : app'[e.n[1]][x] = app[e.n[1]][x]
             /\ es[Len(es)].type = "state:" \o e.n[1] \o ":" \o e.n[2]
             /\ AllInvoked(es, e.n[1])
        /\ \A e \in Returned(es, "call:emit") :
             \A cb \in Range(watchers.on[e.a]) : Cardinality(Handled(es, e.a, cb)) = 1]_vars

\* a batch in which the first watcher of a key threw and a second watcher of
\* that key was invoked after it
C35_Witness ==
  /\ last.handler = "batch"
  /\ emitted[Len(emitted)].type = "state:batch"
  /\ \E i, j \in Emitted(emitted, "watcher") :
       /\ i < j /\ emitted[i].a = emitted[j].a
       /\ emitted[i].n[3] /\ ~emitted[j].n[3]

\* an emit in which the first handler threw and the second was invoked
C35_WitnessEmit ==
  /\ last.handler = "emit"
  /\ \E i, j \in Emitted(emitted, "handler") : i < j /\ emitted[i].n[2]

\* a merge whose watcher threw
C35_WitnessMerge ==
  /\ last.handler = "merge"
  /\ \E i \in Emitted(emitted, "watcher") : emitted[i].n[3]

\* the attempts of the backoff loop that are awaiting their _reconnect
LoopAttempts(ts) == {t \in BagToSet(ts) : t.kind = "attempt"}

\* C36: while the connection status is online the backoff loop is not
\* running: no reconnect timer is pending and no attempt of the loop is in
\* flight.
C36_OnlineMeansNoLoop ==
  cm.status = "online" => (timers = {} /\ LoopAttempts(tasks) = {})

\* C37: at most one reconnect timer is pending, and a pending timer is the one
\* whose handle _reconnectInterval holds, so that _stopReconnecting cancels it.
C37_OneReconnectTimer ==
  /\ Cardinality(timers) <= 1
  /\ timers \subseteq {cm.reconnectInterval}

\* C38: totalUnread is the sum of the unread counts of all conversations, and
\* no unread count is negative, in every state between two handler steps.
C38_TotalIsSum ==
  /\ app.totalUnread = SumOver(app.unreadCounts, DOMAIN app.unreadCounts)
  /\ \A c \in DOMAIN app.unreadCounts : app.unreadCounts[c] >= 0

\* enterConversation's mark-read has zeroed one conversation while another
\* still has unread messages
C38_Witness ==
  /\ last = Ran("enterConversation", "markMessagesRead")
  /\ app.totalUnread > 0
  /\ \E c \in DOMAIN app.unreadCounts : app.unreadCounts[c] = 0

\* the counts were loaded, with unread messages in two conversations
C38_WitnessLoad ==
  /\ last.handler = "loadUserData"
  /\ \A c \in budget.convs : Count(app.unreadCounts, c) > 0

\* a mark-read resumed after the sign-out's reset
C38_WitnessReset ==
  /\ app.user = NULL
  /\ last.handler \in {"enterConversation", "_handleVisibilityChange"}
  /\ DOMAIN app.unreadCounts # {}
====
